---- MODULE Spec2Model ----
(***************************************************************************)
(* Model of the Graphiti task queue (table graphiti_tasks), of the         *)
(* GraphitiWorker that drains it, of the GraphitiClient availability flag  *)
(* that gates it, of the request handlers that read that flag, and of the  *)
(* LLMProvider fallback chain.                                             *)
(*                                                                         *)
(* Sources: src/bot/graphiti_worker.py, src/bot/graphiti_client.py,        *)
(* src/bot/main.py, src/bot/llm_provider.py.                               *)
(*                                                                         *)
(* Time is counted in minutes (the unit of the retry backoff).  One action *)
(* is one SQL statement or one stretch of coroutine code between two       *)
(* suspension points.  Queue-store statements succeed, except under        *)
(* SpecFaults, SpecLife and SpecLive.  Of a row, the columns that the      *)
(* queue and the worker read or that the claims speak of are kept          *)
(* (processed_at and source_description are not).  Worker instances share  *)
(* one GraphitiClient.                                                     *)
(*                                                                         *)
(* Spec        one worker, one enqueue call, the whole retry chain         *)
(* SpecQueue   one worker, several rows, the first minutes                 *)
(* SpecMulti   two workers on the same table                               *)
(* SpecFaults  one worker, store errors, cancellation at shutdown          *)
(* SpecClient  the client alone, every call recorded                       *)
(* SpecRequest the request handlers over the client and the queue          *)
(* SpecLLM     one chat() of the LLMProvider                               *)
(* SpecDispatch   the episode each task kind hands to the client           *)
(* SpecPipeline   one format_reasoning call                                *)
(* SpecClassifier detect_intent and detect_business_tag on a phrase        *)
(* SpecReindex    runs of the admin reindex over a history                 *)
(* SpecLife    SpecFaults with markings, library calls, appends counted    *)
(* SpecMarks   Spec's worker with the markings counted                     *)
(* SpecLive    SpecLife's worker under fairness, store errors ending       *)
(***************************************************************************)
EXTENDS Integers, Sequences, FiniteSets, TLC

(* ------------------------------ bounds -------------------------------- *)
\* Spec, SpecMulti: one enqueue call, followed through its whole retry chain
MaxTime == 30
MaxEnqueue == 1
\* SpecQueue: several rows, over the first minutes
MaxTimeQ == 2
MaxEnqueueQ == 2
\* SpecClient: the calls made on the client; SpecRequest: the tasks enqueued
MaxCalls == 4
MaxRequests == 2
\* SpecDispatch: the tasks enqueued, of every kind
MaxEnqueueD == 2
\* SpecReindex: the runs of the admin reindex, the messages of the history
MaxReindex == 2
MaxHistory == 2
\* SpecPipeline: the words of the text handed to format_reasoning
MaxWords == 3
\* SpecClassifier: the phrases of the message classified
MaxPhrases == 2

(* ------------------------- program constants -------------------------- *)
BATCH_SIZE == 3
DefaultMaxAttempts == 5
REVIEW_THRESHOLD == 80
FORCED_BONUS == 30
VALIDATION_CAP == 50

Workers == {"w1", "w2"}
NoKey == "None"
(* The enqueue calls the environment makes: <<message_uuid, content, task_type>> *)
Requests ==
    {<<"k1", "p1", "add_episode">>, <<"k1", "p2", "bogus">>,
     <<NoKey, "p1", "add_episode">>}
(* Mutant of KnownTypes: the else branch of the dispatch never taken. *)
KnownTypesAll == {"add_episode", "correct", "forget", "bogus"}
KnownTypes == {"add_episode", "correct", "forget"}
TaskTypes == KnownTypes \cup {"bogus"}
NoError == "NULL"
NoRead == [attempts |-> 0, max_attempts |-> 0]

VARIABLES
    tasks,        \* table graphiti_tasks: sequence of rows, id = index
    now,          \* datetime.utcnow(), in minutes
    enabled,      \* GRAPHITI_ENABLED
    initialized,  \* GraphitiClient._initialized
    available,    \* GraphitiClient._available
    pc,           \* per worker: position in run()/_process_task()
    running,      \* per worker: GraphitiWorker._running
    pool,         \* per worker: GraphitiWorker._pool ("none", "open", "closed")
    batch,        \* per worker: the fetched rows still to process (ids)
    cur,          \* per worker: id of the task in _process_task (0 = none)
    success,      \* per worker: local `success` of _process_task
    err,          \* per worker: the error text handed to _mark_failed
    rd,           \* per worker: the row read by _mark_failed's SELECT
    nfail,        \* per worker: _mark_failed calls made by the current _process_task
    passed,       \* per worker: the startup wait ended on graphiti.available
    enqLog,       \* history of enqueue_graphiti_task calls: key, content, ret
    readEnabled,  \* GRAPHITI_READ_ENABLED
    calls,        \* history of the GraphitiClient calls made under SpecClient
    lastReq,      \* the last request served by main.py, and how it ended
    llm,          \* LLMProvider: its configuration and the chat() in progress
    episode,      \* per worker: the append _process_task asked the client for
    pipe,         \* the last call of format_reasoning: arguments and outcome
    classif,      \* the last text classified by intent_detector, and the result
    marks,        \* history: per task id, the times it was marked processing
    libCalls,     \* history: per task id, the appends asked of the library
    appends       \* history: per task id, the appends the library stored

vars == <<tasks, now, enabled, initialized, available, pc, running, pool,
          batch, cur, success, err, rd, nfail, passed, enqLog, readEnabled,
          calls, lastReq, llm, episode, pipe, classif, marks, libCalls, appends>>

clientVars == <<enabled, initialized, available>>
workerVars == <<pc, running, pool, batch, cur, success, err, rd, nfail, passed,
               episode>>
apiVars == <<readEnabled, calls, lastReq, llm>>
textVars == <<pipe, classif>>
histVars == <<marks, libCalls, appends>>

(* ----------------------------- helpers -------------------------------- *)
RECURSIVE Pow2(_)
Pow2(n) == IF n = 0 THEN 1 ELSE 2 * Pow2(n - 1)

Min(a, b) == IF a < b THEN a ELSE b

Ids == DOMAIN tasks

(* GraphitiClient.available: the flag AND the feature switch. *)
Available == available /\ enabled

(* --------------------------- queue store ------------------------------ *)

(* The defaults of the columns the INSERT does not name (the table's       *)
(* definition): a new task is pending, untried, and due at once.           *)
RowDefaults(t) ==
    [status        |-> "pending",
     attempts      |-> 0,
     max_attempts  |-> DefaultMaxAttempts,
     next_retry_at |-> t,
     created_at    |-> t,
     error_message |-> NoError]

(* INSERT INTO graphiti_tasks (message_uuid, content, source_description,  *)
(* task_type) VALUES ($1, $2, $3, $4)                                      *)
NewRow(uuid, content, task_type, t) ==
    LET d == RowDefaults(t)
    IN [message_uuid  |-> uuid,
        content       |-> content,
        task_type     |-> task_type,
        status        |-> d.status,
        attempts      |-> d.attempts,
        max_attempts  |-> d.max_attempts,
        next_retry_at |-> d.next_retry_at,
        created_at    |-> d.created_at,
        error_message |-> d.error_message]

(* uuid.uuid4(): a key no row carries. *)
FreshUuid(tbl) == "uuid" \o ToString(Len(tbl) + 1)

(* Mutant of InsertTask: ON CONFLICT (message_uuid) DO UPDATE SET content. *)
InsertTaskUpsert(tbl, uuid, content, task_type, t) ==
    IF \E i \in DOMAIN tbl : tbl[i].message_uuid = uuid
    THEN [i \in DOMAIN tbl |->
            IF tbl[i].message_uuid = uuid
            THEN [tbl[i] EXCEPT !.content = content]
            ELSE tbl[i]]
    ELSE Append(tbl, NewRow(uuid, content, task_type, t))

(* INSERT ... ON CONFLICT (message_uuid) DO NOTHING *)
InsertTask(tbl, uuid, content, task_type, t) ==
    IF \E i \in DOMAIN tbl : tbl[i].message_uuid = uuid
    THEN tbl
    ELSE Append(tbl, NewRow(uuid, content, task_type, t))

(* enqueue_graphiti_task: returns True once the statement has run. *)
EnqueueTask(key, content, task_type) ==
    LET uuid == IF key = NoKey THEN FreshUuid(tasks) ELSE key
    IN /\ tasks' = InsertTask(tasks, uuid, content, task_type, now)
       /\ enqLog' = Append(enqLog, [key |-> uuid, content |-> content, ret |-> TRUE])

(* A call of enqueue_graphiti_task by the environment. *)
Enqueue(key, content, task_type, maxCalls) ==
    /\ Len(enqLog) < maxCalls
    /\ EnqueueTask(key, content, task_type)
    /\ UNCHANGED <<now, clientVars, workerVars, apiVars, textVars, histVars>>

(* Mutant of Due: the status test forgotten. *)
DueAnyStatus(tbl, t) ==
    {i \in DOMAIN tbl : tbl[i].next_retry_at <= t}

(* WHERE status = 'pending' AND next_retry_at <= $1 *)
Due(tbl, t) ==
    {i \in DOMAIN tbl : tbl[i].status = "pending" /\ tbl[i].next_retry_at <= t}

(* Mutant of FetchPending: ORDER BY created_at forgotten. *)
FetchPendingUnordered(tbl, t, limit) ==
    LET due == Due(tbl, t)
        n   == Min(limit, Cardinality(due))
    IN {s \in [1..n -> due] : \A a, b \in 1..n : a < b => s[a] # s[b]}

(* SELECT ... ORDER BY created_at LIMIT $2: every answer the statement may *)
(* give (rows with equal created_at come in any order).                    *)
FetchPending(tbl, t, limit) ==
    LET due == Due(tbl, t)
        n   == Min(limit, Cardinality(due))
    IN {s \in [1..n -> due] :
          /\ \A a, b \in 1..n : a < b =>
                /\ s[a] # s[b]
                /\ tbl[s[a]].created_at <= tbl[s[b]].created_at
          /\ \A j \in due : (\A a \in 1..n : s[a] # j) =>
                \A a \in 1..n : tbl[s[a]].created_at <= tbl[j].created_at}

(* UPDATE graphiti_tasks SET status = $1 WHERE id = $2 *)
UpdateStatus(tbl, id, status) ==
    [tbl EXCEPT ![id].status = status]

(* UPDATE graphiti_tasks SET status = 'done', processed_at = $1 WHERE id = $2 *)
MarkDoneRow(tbl, id) ==
    [tbl EXCEPT ![id].status = "done"]

(* Mutant of MarkFailedRow: the delay computed from the attempts read,     *)
(* not from new_attempts.                                                  *)
MarkFailedRowOldDelay(tbl, id, read, error, t) ==
    LET new_attempts == read.attempts + 1
    IN IF new_attempts >= read.max_attempts
       THEN [tbl EXCEPT ![id].status = "failed",
                        ![id].attempts = new_attempts,
                        ![id].error_message = error]
       ELSE [tbl EXCEPT ![id].status = "pending",
                        ![id].attempts = new_attempts,
                        ![id].error_message = error,
                        ![id].next_retry_at = t + Pow2(read.attempts)]

(* Mutant of MarkFailedRow: `>` for `>=` in the test of max_attempts. *)
MarkFailedRowLateStop(tbl, id, read, error, t) ==
    LET new_attempts == read.attempts + 1
    IN IF new_attempts > read.max_attempts
       THEN [tbl EXCEPT ![id].status = "failed",
                        ![id].attempts = new_attempts,
                        ![id].error_message = error]
       ELSE [tbl EXCEPT ![id].status = "pending",
                        ![id].attempts = new_attempts,
                        ![id].error_message = error,
                        ![id].next_retry_at = t + Pow2(new_attempts)]

(* Mutant of MarkFailedRow: the attempt not counted. *)
MarkFailedRowNotCounted(tbl, id, read, error, t) ==
    LET new_attempts == read.attempts
    IN IF new_attempts >= read.max_attempts
       THEN [tbl EXCEPT ![id].status = "failed",
                        ![id].attempts = new_attempts,
                        ![id].error_message = error]
       ELSE [tbl EXCEPT ![id].status = "pending",
                        ![id].attempts = new_attempts,
                        ![id].error_message = error,
                        ![id].next_retry_at = t + Pow2(new_attempts)]

(* The UPDATE of _mark_failed, computed from the row its SELECT returned. *)
MarkFailedRow(tbl, id, read, error, t) ==
    LET new_attempts == read.attempts + 1
    IN IF new_attempts >= read.max_attempts
       THEN [tbl EXCEPT ![id].status = "failed",
                        ![id].attempts = new_attempts,
                        ![id].error_message = error]
       ELSE [tbl EXCEPT ![id].status = "pending",
                        ![id].attempts = new_attempts,
                        ![id].error_message = error,
                        ![id].next_retry_at = t + Pow2(new_attempts)]

(* ------------------------- GraphitiClient ----------------------------- *)
LibOutcomes == {"ok", "connection_error", "other_error"}

(* _is_connection_error over the error classes the library call can raise. *)
IsConnectionError(outcome) == outcome = "connection_error"

(* Mutant of AvailableAfterCall: every exception clears the flag. *)
AvailableAfterCallAnyError(avail, outcome) ==
    IF avail /\ outcome # "ok" THEN FALSE ELSE avail

(* The value of _available after one guarded library call (add_episode,    *)
(* search): untouched unless the call was made and raised a connection     *)
(* error.                                                                  *)
AvailableAfterCall(avail, outcome) ==
    IF avail /\ IsConnectionError(outcome) THEN FALSE ELSE avail

(* The return value of add_episode. *)
AddEpisodeResult(avail, outcome) == avail /\ outcome = "ok"

(* GraphitiClient.initialize *)
Initialize(ok) ==
    /\ IF ~enabled
       THEN UNCHANGED <<initialized, available>>
       ELSE IF ok
            THEN initialized' = TRUE /\ available' = TRUE
            ELSE available' = FALSE /\ UNCHANGED initialized
    /\ UNCHANGED <<tasks, now, enabled, workerVars, enqLog, apiVars, textVars, histVars>>

(* GraphitiClient.health_check *)
HealthCheck(outcome) ==
    /\ enabled
    /\ initialized
    /\ IF ~available
       THEN \* ok = await self.initialize()
            IF outcome = "ok"
            THEN available' = TRUE
            ELSE available' = FALSE
       ELSE \* probe search; any exception clears the flag
            available' = (outcome = "ok")
    /\ UNCHANGED <<tasks, now, enabled, initialized, workerVars, enqLog, apiVars, textVars, histVars>>

(* GraphitiClient.search, called by the request handlers. *)
Search(outcome) ==
    /\ available
    /\ available' = AvailableAfterCall(available, outcome)
    /\ UNCHANGED <<tasks, now, enabled, initialized, workerVars, enqLog, apiVars, textVars, histVars>>

(* --------------------------- GraphitiWorker --------------------------- *)

(* run(): self._running = True, then the first test of the startup wait. *)
Run(w) ==
    /\ pc[w] = "new"
    /\ running' = [running EXCEPT ![w] = TRUE]
    /\ pc' = [pc EXCEPT ![w] = "startup"]
    /\ UNCHANGED <<tasks, now, clientVars, pool, batch, cur, success, err, rd,
                   nfail, passed, enqLog, apiVars, episode, textVars, histVars>>

(* stop() *)
Stop(w) ==
    /\ running[w]
    /\ running' = [running EXCEPT ![w] = FALSE]
    /\ UNCHANGED <<tasks, now, clientVars, pc, pool, batch, cur, success, err,
                   rd, nfail, passed, enqLog, apiVars, episode, textVars, histVars>>

(* Mutant of StartupWaits: the test of _running negated. *)
StartupWaitsNotRunning(w) == ~running[w] /\ ~Available

(* while self._running and not self.graphiti.available: *)
StartupWaits(w) == running[w] /\ ~Available

(* ... await asyncio.sleep(10) *)
StartupSleep(w) ==
    /\ pc[w] = "startup"
    /\ StartupWaits(w)
    /\ pc' = [pc EXCEPT ![w] = "startup_sleep"]
    /\ UNCHANGED <<tasks, now, clientVars, running, pool, batch, cur, success,
                   err, rd, nfail, passed, enqLog, apiVars, episode, textVars, histVars>>

StartupWake(w) ==
    /\ pc[w] = "startup_sleep"
    /\ pc' = [pc EXCEPT ![w] = "startup"]
    /\ UNCHANGED <<tasks, now, clientVars, running, pool, batch, cur, success,
                   err, rd, nfail, passed, enqLog, apiVars, episode, textVars, histVars>>

(* The startup wait ends: stopped, or the client is available. *)
StartupExit(w) ==
    /\ pc[w] = "startup"
    /\ ~StartupWaits(w)
    /\ pc' = [pc EXCEPT ![w] = "loop"]
    /\ passed' = [passed EXCEPT ![w] = running[w] /\ Available]
    /\ UNCHANGED <<tasks, now, clientVars, running, pool, batch, cur, success,
                   err, rd, nfail, enqLog, apiVars, episode, textVars, histVars>>

(* while self._running: ... entering _fetch_pending (the pool is created   *)
(* on first use), or leaving the loop and closing the pool.                *)
LoopHead(w) ==
    /\ pc[w] = "loop"
    /\ IF running[w]
       THEN /\ pc' = [pc EXCEPT ![w] = "fetch"]
            /\ pool' = [pool EXCEPT ![w] = "open"]
       ELSE /\ pc' = [pc EXCEPT ![w] = "stopped"]
            /\ pool' = [pool EXCEPT ![w] = IF pool[w] = "open" THEN "closed" ELSE pool[w]]
    /\ UNCHANGED <<tasks, now, clientVars, running, batch, cur, success, err,
                   rd, nfail, passed, enqLog, apiVars, episode, textVars, histVars>>

(* tasks = await self._fetch_pending(batch_size=3) *)
Fetch(w) ==
    /\ pc[w] = "fetch"
    /\ \E s \in FetchPending(tasks, now, BATCH_SIZE) :
          /\ batch' = [batch EXCEPT ![w] = s]
          /\ pc' = [pc EXCEPT ![w] = IF s = <<>> THEN "idle_sleep" ELSE "batch"]
    /\ UNCHANGED <<tasks, now, clientVars, running, pool, cur, success, err,
                   rd, nfail, passed, enqLog, apiVars, episode, textVars, histVars>>

(* await asyncio.sleep(10); continue *)
IdleWake(w) ==
    /\ pc[w] = "idle_sleep"
    /\ pc' = [pc EXCEPT ![w] = "loop"]
    /\ UNCHANGED <<tasks, now, clientVars, running, pool, batch, cur, success,
                   err, rd, nfail, passed, enqLog, apiVars, episode, textVars, histVars>>

(* Mutant of BatchEnds: `if not self._running: break` forgotten. *)
BatchEndsIgnoresStop(w) == batch[w] = <<>>

(* The for loop over the fetched rows ends: no row left, or stop() seen. *)
BatchEnds(w) == batch[w] = <<>> \/ ~running[w]

(* for task in tasks: if not self._running: break; _process_task(task) *)
BatchNext(w) ==
    /\ pc[w] = "batch"
    /\ IF BatchEnds(w)
       THEN /\ pc' = [pc EXCEPT ![w] = "pause"]
            /\ batch' = [batch EXCEPT ![w] = <<>>]
            /\ UNCHANGED <<cur, nfail>>
       ELSE /\ pc' = [pc EXCEPT ![w] = "mark_processing"]
            /\ cur' = [cur EXCEPT ![w] = Head(batch[w])]
            /\ batch' = [batch EXCEPT ![w] = Tail(batch[w])]
            /\ nfail' = [nfail EXCEPT ![w] = 0]
    /\ UNCHANGED <<tasks, now, clientVars, running, pool, success, err, rd,
                   passed, enqLog, apiVars, episode, textVars, histVars>>

(* await asyncio.sleep(2) *)
PauseWake(w) ==
    /\ pc[w] = "pause"
    /\ pc' = [pc EXCEPT ![w] = "loop"]
    /\ UNCHANGED <<tasks, now, clientVars, running, pool, batch, cur, success,
                   err, rd, nfail, passed, enqLog, apiVars, episode, textVars, histVars>>

(* await self._update_status(task_id, "processing") *)
MarkProcessing(w) ==
    /\ pc[w] = "mark_processing"
    /\ tasks' = UpdateStatus(tasks, cur[w], "processing")
    /\ pc' = [pc EXCEPT ![w] = "handler"]
    /\ success' = [success EXCEPT ![w] = FALSE]
    /\ UNCHANGED <<now, clientVars, running, pool, batch, cur, err, rd, nfail,
                   passed, enqLog, apiVars, episode, textVars>>

(* Mutant of AfterHandler: the result of the handler ignored. *)
AfterHandlerAlwaysDone(ok) == "mark_done"

(* Where _process_task goes once the handler has returned `ok`. *)
AfterHandler(ok) == IF ok THEN "mark_done" ELSE "mark_failed"

(* No append asked for. *)
NoEpisode == [content |-> "", source_description |-> "", stored |-> FALSE]

(* task["source_description"]: the label the row was enqueued with. *)
RowSource == "task.source_description"

(* The arguments of one GraphitiClient.add_episode call, and whether the   *)
(* library stored the episode.                                             *)
AddEpisode(content, source_description, stored) ==
    [content |-> content, source_description |-> source_description,
     stored |-> stored]

(* GraphitiClient.correct_fact: return await self.add_episode(             *)
(*     content=correction, source_description=source_description)          *)
CorrectFact(correction, source_description, stored) ==
    AddEpisode(correction, source_description, stored)

(* f"CORRECTION: L'information suivante est FAUSSE et obsolete: {content}" *)
Negation(content) ==
    "CORRECTION: L'information suivante est FAUSSE et obsolete: " \o content

(* The if/elif chain of _process_task over task_type. *)
Dispatch(task_type, content, stored) ==
    CASE task_type = "add_episode" -> AddEpisode(content, RowSource, stored)
      [] task_type = "correct" -> CorrectFact(content, RowSource, stored)
      [] task_type = "forget" ->
            AddEpisode(Negation(content), "Invalidation utilisateur", stored)
      [] OTHER -> NoEpisode

(* The dispatch on task_type and the call of the client. *)
Handler(w, outcome) ==
    /\ pc[w] = "handler"
    /\ episode' = [episode EXCEPT ![w] =
                     Dispatch(tasks[cur[w]].task_type, tasks[cur[w]].content,
                              AddEpisodeResult(available, outcome))]
    /\ IF tasks[cur[w]].task_type \in KnownTypes
       THEN LET ok == AddEpisodeResult(available, outcome)
            IN /\ available' = AvailableAfterCall(available, outcome)
               /\ success' = [success EXCEPT ![w] = ok]
               /\ pc' = [pc EXCEPT ![w] = AfterHandler(ok)]
               /\ err' = [err EXCEPT ![w] = IF ok THEN NoError
                                            ELSE "Graphiti returned False"]
       ELSE /\ pc' = [pc EXCEPT ![w] = "mark_failed"]
            /\ err' = [err EXCEPT ![w] = "Type inconnu"]
            /\ UNCHANGED <<available, success>>
    /\ UNCHANGED <<tasks, now, enabled, initialized, running, pool, batch, cur,
                   rd, nfail, passed, enqLog, apiVars, textVars>>

(* _process_task returns: its locals are gone. *)
Return(w) ==
    /\ pc' = [pc EXCEPT ![w] = "batch"]
    /\ cur' = [cur EXCEPT ![w] = 0]
    /\ success' = [success EXCEPT ![w] = FALSE]
    /\ err' = [err EXCEPT ![w] = NoError]
    /\ rd' = [rd EXCEPT ![w] = NoRead]
    /\ episode' = [episode EXCEPT ![w] = NoEpisode]

(* await self._mark_done(task_id) *)
MarkDone(w) ==
    /\ pc[w] = "mark_done"
    /\ tasks' = MarkDoneRow(tasks, cur[w])
    /\ Return(w)
    /\ UNCHANGED <<now, clientVars, running, pool, batch, nfail, passed, enqLog, apiVars, textVars, histVars>>

(* _mark_failed, first statement: SELECT attempts, max_attempts *)
MarkFailedRead(w) ==
    /\ pc[w] = "mark_failed"
    /\ rd' = [rd EXCEPT ![w] = [attempts     |-> tasks[cur[w]].attempts,
                                max_attempts |-> tasks[cur[w]].max_attempts]]
    /\ nfail' = [nfail EXCEPT ![w] = nfail[w] + 1]
    /\ pc' = [pc EXCEPT ![w] = "mark_failed_write"]
    /\ UNCHANGED <<tasks, now, clientVars, running, pool, batch, cur, success,
                   err, passed, enqLog, apiVars, episode, textVars, histVars>>

(* _mark_failed, second statement: the UPDATE *)
MarkFailedWrite(w) ==
    /\ pc[w] = "mark_failed_write"
    /\ tasks' = MarkFailedRow(tasks, cur[w], rd[w], err[w], now)
    /\ Return(w)
    /\ UNCHANGED <<now, clientVars, running, pool, batch, nfail, passed, enqLog, apiVars, textVars, histVars>>

(* ------------------------------- time --------------------------------- *)
(* The instants at which a task in backoff becomes due. *)
RetryTimes ==
    {tasks[i].next_retry_at : i \in {j \in Ids : tasks[j].status = "pending"}}

(* The clock moves on: to the next minute (dense), or to an instant at     *)
(* which a retry falls due.                                                *)
Tick(maxTime, dense) ==
    /\ \E t \in (now + 1)..maxTime :
          /\ (dense /\ t = now + 1) \/ t \in RetryTimes
          /\ now' = t
    /\ UNCHANGED <<tasks, clientVars, workerVars, enqLog, apiVars, textVars, histVars>>

(* ------------------- store errors and cancellation -------------------- *)
StoreError == "store error"

(* The locals of run() and _process_task() are gone once an exception has  *)
(* left them.                                                              *)
Unwind(w) ==
    /\ batch' = [batch EXCEPT ![w] = <<>>]
    /\ cur' = [cur EXCEPT ![w] = 0]
    /\ success' = [success EXCEPT ![w] = FALSE]
    /\ err' = [err EXCEPT ![w] = NoError]
    /\ rd' = [rd EXCEPT ![w] = NoRead]
    /\ episode' = [episode EXCEPT ![w] = NoEpisode]

(* except Exception as e: ... await asyncio.sleep(30) *)
ErrorBackoff(w) ==
    /\ pc' = [pc EXCEPT ![w] = "error_sleep"]
    /\ Unwind(w)
    /\ UNCHANGED <<tasks, now, clientVars, running, pool, nfail, passed,
                   enqLog, apiVars, textVars, histVars>>

(* _get_pool: asyncpg.create_pool raises, self._pool stays None. *)
CreatePoolFails(w) ==
    /\ pc[w] = "loop"
    /\ running[w]
    /\ pool[w] = "none"
    /\ ErrorBackoff(w)

(* _fetch_pending: the SELECT raises. *)
FetchFails(w) ==
    /\ pc[w] = "fetch"
    /\ ErrorBackoff(w)

(* _update_status raises: it is called before the try of _process_task,    *)
(* the exception reaches run().                                            *)
MarkProcessingFails(w) ==
    /\ pc[w] = "mark_processing"
    /\ ErrorBackoff(w)

(* except Exception as e: await self._mark_failed(task_id, str(e)) *)
ExceptMarkFailed(w) ==
    /\ pc' = [pc EXCEPT ![w] = "mark_failed"]
    /\ err' = [err EXCEPT ![w] = StoreError]
    /\ rd' = [rd EXCEPT ![w] = NoRead]
    /\ UNCHANGED <<tasks, now, clientVars, running, pool, batch, cur, success,
                   nfail, passed, enqLog, apiVars, episode, textVars, histVars>>

(* _mark_done raises, inside the try of _process_task. *)
MarkDoneFails(w) ==
    /\ pc[w] = "mark_done"
    /\ ExceptMarkFailed(w)

(* _mark_failed raises (either statement): inside the try its exception is *)
(* handled by a second _mark_failed, inside the except clause it reaches   *)
(* run().                                                                  *)
MarkFailedFails(w) ==
    /\ pc[w] \in {"mark_failed", "mark_failed_write"}
    /\ IF err[w] = StoreError
       THEN ErrorBackoff(w)
       ELSE ExceptMarkFailed(w)

(* The sleep of the except clause of run() is over. *)
ErrorWake(w) ==
    /\ pc[w] = "error_sleep"
    /\ pc' = [pc EXCEPT ![w] = "loop"]
    /\ UNCHANGED <<tasks, now, clientVars, running, pool, batch, cur, success,
                   err, rd, nfail, passed, enqLog, apiVars, episode, textVars, histVars>>

(* The positions at which run() is suspended in an await. *)
SuspensionPoints ==
    {"startup_sleep", "fetch", "idle_sleep", "pause", "mark_processing",
     "handler", "mark_done", "mark_failed", "mark_failed_write", "error_sleep"}

(* The awaits inside the try of the main loop: a CancelledError raised     *)
(* there is caught by `except asyncio.CancelledError: break`.  The sleep   *)
(* of the startup wait is before the try, the sleep of the error back-off  *)
(* is inside the except clause.                                            *)
CancelCaught(p) == p \notin {"startup_sleep", "error_sleep"}

(* lifespan, shutdown: stop(), then worker_task.cancel().  CancelledError  *)
(* is raised at the await the worker is suspended in; it is not an         *)
(* Exception, so _process_task and the client let it through.              *)
Cancel(w) ==
    /\ pc[w] \in SuspensionPoints
    /\ running' = [running EXCEPT ![w] = FALSE]
    /\ IF CancelCaught(pc[w])
       THEN \* break; self._running = False; await self._pool.close()
            /\ pc' = [pc EXCEPT ![w] = "stopped"]
            /\ pool' = [pool EXCEPT ![w] = IF pool[w] = "open" THEN "closed"
                                           ELSE pool[w]]
       ELSE \* the exception leaves run()
            /\ pc' = [pc EXCEPT ![w] = "cancelled"]
            /\ UNCHANGED pool
    /\ Unwind(w)
    /\ UNCHANGED <<tasks, now, clientVars, nfail, passed, enqLog, apiVars, textVars, histVars>>

(* A store statement raises. *)
StoreRaises(w) ==
    \/ CreatePoolFails(w)
    \/ FetchFails(w)
    \/ MarkProcessingFails(w)
    \/ MarkDoneFails(w)
    \/ MarkFailedFails(w)

(* A store statement raises, and run() recovers from it. *)
StoreFault(w) ==
    \/ StoreRaises(w)
    \/ ErrorWake(w)

FaultStep(w) ==
    \/ StoreFault(w)
    \/ Cancel(w)

(* ------------------------ history of a task --------------------------- *)
(* How many times something happened to task i. *)
Count(h, i) == IF i \in DOMAIN h THEN h[i] ELSE 0

(* It has happened to task i once more. *)
Counted(h, i) ==
    [j \in DOMAIN h \cup {i} |-> Count(h, j) + (IF j = i THEN 1 ELSE 0)]

(* _update_status(task_id, "processing") has run for the task in hand. *)
MarkProcessingCounted(w) ==
    /\ MarkProcessing(w)
    /\ marks' = Counted(marks, cur[w])
    /\ UNCHANGED <<libCalls, appends>>

(* The call of the client has returned: add_episode reaches the library    *)
(* only past `if not self._available: return False`, and the library has   *)
(* stored the episode when the call returns True.  A task of unknown type  *)
(* makes no call of the client.                                            *)
HandlerCounted(w, outcome) ==
    LET i     == cur[w]
        known == tasks[i].task_type \in KnownTypes
    IN /\ Handler(w, outcome)
       /\ libCalls' = IF known /\ available THEN Counted(libCalls, i) ELSE libCalls
       /\ appends' = IF known /\ AddEpisodeResult(available, outcome)
                     THEN Counted(appends, i) ELSE appends
       /\ UNCHANGED marks

(* ------------------ GraphitiClient, call by call ---------------------- *)
(* The operations that reach the library once the client is available.     *)
ClientOps ==
    {"add_episode", "correct_fact", "search", "get_entity", "build_communities"}

(* Those whose except clause tests _is_connection_error (correct_fact is   *)
(* add_episode); get_entity and build_communities log and return.          *)
TrippingOps == {"add_episode", "correct_fact", "search"}

NoContact == "not_called"

(* What the library answered, if the call got as far as the library. *)
Contact(reached, outcome) == IF reached THEN outcome ELSE NoContact

(* _available after one operation. *)
OpAvailable(op, avail, outcome) ==
    IF op \in TrippingOps THEN AvailableAfterCall(avail, outcome) ELSE avail

(* What the operation returns: its result, or False / [] / None. *)
OpReturn(avail, outcome) == IF avail /\ outcome = "ok" THEN "result" ELSE "empty"

(* Mutant of AvailableAfterInit: the feature switch not tested. *)
AvailableAfterInitNoFlag(en, avail, ok) == ok

(* _available after initialize(). *)
AvailableAfterInit(en, avail, ok) == IF ~en THEN avail ELSE ok

(* The return value of initialize(). *)
InitializeReturn(en, ok) == IF en /\ ok THEN "True" ELSE "False"

(* Mutant of AvailableAfterHealth: a reconnection that succeeded leaves    *)
(* the flag down.                                                          *)
AvailableAfterHealthNoHeal(en, init, avail, outcome) ==
    IF ~en \/ ~init THEN avail ELSE avail /\ outcome = "ok"

(* Mutant of AvailableAfterHealth: `if not self._initialized` forgotten. *)
AvailableAfterHealthNoInitTest(en, init, avail, outcome) ==
    IF ~en THEN avail ELSE outcome = "ok"

(* _available after health_check(): untouched when disabled or never       *)
(* initialised, else the result of initialize() or of the probe.           *)
AvailableAfterHealth(en, init, avail, outcome) ==
    IF ~en \/ ~init THEN avail ELSE outcome = "ok"

(* The status health_check() reports. *)
HealthStatus(en, init, avail, outcome) ==
    IF ~en THEN "disabled"
    ELSE IF ~init THEN "not_initialized"
    ELSE IF ~avail THEN (IF outcome = "ok" THEN "reconnected" ELSE "unavailable")
    ELSE IF outcome = "ok" THEN "healthy" ELSE "error"

CallRecord(op, outcome, after, ret) ==
    [op |-> op, outcome |-> outcome, before |-> available, after |-> after,
     ret |-> ret]

(* initialize(), recorded. *)
InitializeCall(outcome, maxCalls) ==
    /\ Len(calls) < maxCalls
    /\ LET ok == outcome = "ok"
       IN /\ available' = AvailableAfterInit(enabled, available, ok)
          /\ initialized' = (initialized \/ (enabled /\ ok))
          /\ calls' = Append(calls,
                CallRecord("initialize", Contact(enabled, outcome), available',
                           InitializeReturn(enabled, ok)))
    /\ UNCHANGED <<tasks, now, enabled, workerVars, enqLog, readEnabled,
                   lastReq, llm, textVars, histVars>>

(* health_check(), recorded. *)
HealthCheckCall(outcome, maxCalls) ==
    /\ Len(calls) < maxCalls
    /\ available' = AvailableAfterHealth(enabled, initialized, available, outcome)
    /\ calls' = Append(calls,
          CallRecord("health_check", Contact(enabled /\ initialized, outcome),
                     available',
                     HealthStatus(enabled, initialized, available, outcome)))
    /\ UNCHANGED <<tasks, now, enabled, initialized, workerVars, enqLog,
                   readEnabled, lastReq, llm, textVars, histVars>>

(* add_episode, correct_fact, search, get_entity, build_communities,       *)
(* recorded.                                                               *)
ClientCall(op, outcome, maxCalls) ==
    /\ Len(calls) < maxCalls
    /\ available' = OpAvailable(op, available, outcome)
    /\ calls' = Append(calls,
          CallRecord(op, Contact(available, outcome), available',
                     OpReturn(available, outcome)))
    /\ UNCHANGED <<tasks, now, enabled, initialized, workerVars, enqLog,
                   readEnabled, lastReq, llm, textVars, histVars>>

(* --------------------------- request paths ---------------------------- *)
(* GraphitiClient.read_enabled *)
ReadEnabled == Available /\ readEnabled

NoRequest == [path |-> "none", step |-> "none", status |-> "none", avail |-> FALSE]

(* The request handlers of main.py that use the knowledge store. *)
EnqueuePaths ==
    {"api_post_memo", "api_post_correct", "route_memo", "route_correction",
     "route_forget", "cmd_correct", "cmd_forget"}
SearchPaths == {"api_get_facts", "cmd_ask"}
EntityPaths == {"api_get_entity", "cmd_entity"}
RequestPaths == EnqueuePaths \cup SearchPaths \cup EntityPaths

(* The task_type a handler enqueues. *)
TaskTypeOf(path) ==
    IF path \in {"api_post_correct", "route_correction", "cmd_correct"}
    THEN "correct"
    ELSE IF path \in {"route_forget", "cmd_forget"} THEN "forget"
    ELSE "add_episode"

(* What the handler does with the knowledge store. *)
RequestStep(path, avail, read) ==
    IF path \in EnqueuePaths
    THEN (IF avail THEN "enqueue" ELSE "skipped")
    ELSE IF ~read THEN "skipped"
    ELSE IF path \in SearchPaths THEN "search" ELSE "get_entity"

(* How the handler ends when it skips: the two REST routes that answer     *)
(* HTTP 503, the Telegram commands that answer with a notice, the others   *)
(* that carry on without the knowledge store.                              *)
SkipStatus(path) ==
    IF path \in {"api_post_correct", "api_get_entity"} THEN "http_503"
    ELSE IF path \in {"cmd_correct", "cmd_forget", "cmd_entity"} THEN "notice"
    ELSE "ok"

RequestStatus(path, avail, read) ==
    IF RequestStep(path, avail, read) = "skipped" THEN SkipStatus(path) ELSE "ok"

(* One request, served from its first line to its answer. *)
Request(path, outcome, maxCalls) ==
    LET step == RequestStep(path, Available, ReadEnabled)
    IN /\ lastReq' = [path |-> path, step |-> step,
                      status |-> RequestStatus(path, Available, ReadEnabled),
                      avail |-> Available]
       /\ IF step = "enqueue"
          THEN /\ Len(enqLog) < maxCalls
               /\ EnqueueTask(NoKey, "p1", TaskTypeOf(path))
               /\ UNCHANGED available
          ELSE /\ available' = IF step = "search"
                               THEN AvailableAfterCall(available, outcome)
                               ELSE available
               /\ UNCHANGED <<tasks, enqLog>>
       /\ UNCHANGED <<now, enabled, initialized, workerVars, readEnabled,
                      calls, llm, textVars, histVars>>

(* ------------------------------ reindex ------------------------------- *)
(* The content of a message of the Zep history: missing or empty, too      *)
(* short to be indexed, or long enough.                                    *)
HistoryContents == {"", "ok merci", "le devis Dupont est signe", "le chantier commence lundi"}

(* What zep.get_memory(last_n) can return: the last messages, oldest first. *)
Histories(maxHistory) ==
    UNION {[1..n -> HistoryContents] : n \in 0..maxHistory}

(* if content and len(content) > 10: *)
Indexable(content) == content # "" /\ Len(content) > 10

(* The loop of api_admin_reindex over the rows of the table: one           *)
(* enqueue_graphiti_task(content, "add_episode", "reindex zep") per         *)
(* indexable message, no message_uuid given.                               *)
RECURSIVE ReindexRows(_, _, _)
ReindexRows(tbl, messages, t) ==
    IF messages = <<>> THEN tbl
    ELSE ReindexRows(
            IF Indexable(Head(messages))
            THEN InsertTask(tbl, FreshUuid(tbl), Head(messages), "add_episode", t)
            ELSE tbl,
            Tail(messages), t)

(* The same loop over the history of the enqueue calls. *)
RECURSIVE ReindexLog(_, _, _)
ReindexLog(log, tbl, messages) ==
    IF messages = <<>> THEN log
    ELSE IF Indexable(Head(messages))
         THEN ReindexLog(
                 Append(log, [key |-> FreshUuid(tbl), content |-> Head(messages),
                              ret |-> TRUE]),
                 Append(tbl, Head(messages)), Tail(messages))
         ELSE ReindexLog(log, tbl, Tail(messages))

(* The runs of api_admin_reindex served so far. *)
RunsSoFar == IF lastReq.path = "api_admin_reindex" THEN lastReq.run ELSE 0

(* POST /api/admin/reindex, from its first line to its answer. *)
Reindex(messages, maxRuns) ==
    /\ RunsSoFar < maxRuns
    /\ IF ~Available
       THEN \* raise HTTPException(status_code=503)
            /\ lastReq' = [path |-> "api_admin_reindex", step |-> "skipped",
                           status |-> "http_503", avail |-> FALSE,
                           run |-> RunsSoFar + 1, messages |-> messages,
                           enqueued |-> 0]
            /\ UNCHANGED <<tasks, enqLog>>
       ELSE /\ tasks' = ReindexRows(tasks, messages, now)
            /\ enqLog' = ReindexLog(enqLog, tasks, messages)
            /\ lastReq' = [path |-> "api_admin_reindex", step |-> "enqueue",
                           status |-> "ok", avail |-> TRUE,
                           run |-> RunsSoFar + 1, messages |-> messages,
                           enqueued |-> Len(enqLog') - Len(enqLog)]
    /\ UNCHANGED <<now, clientVars, workerVars, readEnabled, calls, llm,
                   textVars, histVars>>

(* ----------------------------- LLMProvider ---------------------------- *)
FALLBACK_CHAIN == <<"deepseek", "qwen", "claude">>

(* The keys of LLM_CONFIGS, and those whose api_key_env is not empty. *)
ConfigNames == {"deepseek", "qwen", "claude", "ollama"}
KeyedProviders == {"deepseek", "qwen", "claude"}

(* A provider name LLM_CONFIGS does not have; the absent argument. *)
UnknownProvider == "mistral"
NoProvider == "None"

(* The values of LLM_PROVIDER, and of the `provider` argument of chat(). *)
DefaultNames == ConfigNames \cup {UnknownProvider}
ProviderArgs == ConfigNames \cup {UnknownProvider, NoProvider}

(* What the HTTP exchange of _call_provider can come to: a completion, an  *)
(* httpx transport error, raise_for_status(), a body without               *)
(* choices[0].message.content.                                             *)
HttpOutcomes == {"ok", "transport_error", "http_error", "malformed"}

NoResult ==
    [kind |-> "None", provider |-> NoProvider, lastKind |-> "None",
     lastProvider |-> NoProvider]

(* The state of an LLMProvider built with LLM_PROVIDER = current, in an    *)
(* environment that holds the API keys of `keys`.                          *)
NewLLM(current, keys) ==
    [current_provider |-> current,
     keys             |-> keys,
     phase            |-> "idle",
     explicit         |-> NoProvider,
     chain            |-> <<>>,
     called           |-> <<>>,
     result           |-> NoResult,
     last_error       |-> NoResult,
     failLogs         |-> 0,
     fallbackLogs     |-> 0]

(* chain = FALLBACK_CHAIN.copy(); the default moved to the front if it is  *)
(* a member.                                                               *)
Chain(current) ==
    IF \E i \in DOMAIN FALLBACK_CHAIN : FALLBACK_CHAIN[i] = current
    THEN <<current>> \o SelectSeq(FALLBACK_CHAIN, LAMBDA q : q # current)
    ELSE FALLBACK_CHAIN

(* _call_provider: how one call ends, "ok" or the error it raises. *)
CallProviderResult(p, keys, outcome) ==
    IF p \notin ConfigNames THEN "Provider inconnu"
    ELSE IF p \in KeyedProviders /\ p \notin keys THEN "Cle API manquante"
    ELSE outcome

(* What a call returns or raises, as the caller sees it. *)
Outcome(kind, p) ==
    [kind |-> IF kind = "ok" THEN "content" ELSE kind, provider |-> p,
     lastKind |-> "None", lastProvider |-> NoProvider]

(* RuntimeError("Tous les providers ont echoue. Derniere erreur: ...") *)
Exhausted(last) ==
    [kind |-> "exhausted", provider |-> NoProvider, lastKind |-> last.kind,
     lastProvider |-> last.provider]

(* Mutant of PhaseFor: the `provider` argument ignored. *)
PhaseForAlwaysFallback(provider) == "fallback"

(* if provider: return await self._call_provider(provider, ...) *)
PhaseFor(provider) == IF provider # NoProvider THEN "explicit" ELSE "fallback"

(* Mutant of Caught: only the errors of the HTTP exchange are caught. *)
CaughtHttpOnly(kind) == kind \in {"transport_error", "http_error"}

(* except Exception as e: every error _call_provider raises is one. *)
Caught(kind) == kind # "ok"

(* Mutant of LastError: the first error kept. *)
LastErrorFirst(prev, e) == IF prev = NoResult THEN e ELSE prev

(* last_error = e *)
LastError(prev, e) == e

(* Mutant of FailLogsAfter: a failure logged only when no other was. *)
FailLogsOnce(n) == IF n = 0 THEN 1 ELSE n

(* logger.warning("Provider %s echoue: %s", p, e) *)
FailLogsAfter(n) == n + 1

(* chat(), up to its first await. *)
Chat(provider) ==
    /\ llm.phase = "idle"
    /\ llm' = [llm EXCEPT
                 !.explicit = provider,
                 !.phase = PhaseFor(provider),
                 !.chain = IF PhaseFor(provider) = "explicit"
                           THEN <<provider>> ELSE Chain(llm.current_provider)]
    /\ UNCHANGED <<tasks, now, clientVars, workerVars, enqLog, readEnabled,
                   calls, lastReq, textVars, histVars>>

(* chat() with a provider: the call, its content or its error. *)
ExplicitCall(outcome) ==
    /\ llm.phase = "explicit"
    /\ LET p    == Head(llm.chain)
           kind == CallProviderResult(p, llm.keys, outcome)
       IN llm' = [llm EXCEPT
                    !.called = Append(@, [provider |-> p, kind |-> kind]),
                    !.chain = Tail(@),
                    !.phase = IF kind = "ok" THEN "returned" ELSE "raised",
                    !.result = Outcome(kind, p)]
    /\ UNCHANGED <<tasks, now, clientVars, workerVars, enqLog, readEnabled,
                   calls, lastReq, textVars, histVars>>

(* One turn of `for p in chain`, and the raise that follows the last. *)
FallbackCall(outcome) ==
    /\ llm.phase = "fallback"
    /\ llm.chain # <<>>
    /\ LET p    == Head(llm.chain)
           kind == CallProviderResult(p, llm.keys, outcome)
           e    == Outcome(kind, p)
           last == LastError(llm.last_error, e)
       IN llm' =
            IF kind = "ok"
            THEN [llm EXCEPT
                    !.called = Append(@, [provider |-> p, kind |-> kind]),
                    !.chain = Tail(@),
                    !.phase = "returned",
                    !.result = e,
                    !.fallbackLogs = IF p # llm.current_provider
                                     THEN @ + 1 ELSE @]
            ELSE IF ~Caught(kind)
            THEN [llm EXCEPT
                    !.called = Append(@, [provider |-> p, kind |-> kind]),
                    !.chain = Tail(@),
                    !.phase = "raised",
                    !.result = e]
            ELSE [llm EXCEPT
                    !.called = Append(@, [provider |-> p, kind |-> kind]),
                    !.chain = Tail(@),
                    !.last_error = last,
                    !.failLogs = FailLogsAfter(@),
                    !.phase = IF Tail(llm.chain) = <<>> THEN "raised"
                              ELSE "fallback",
                    !.result = IF Tail(llm.chain) = <<>> THEN Exhausted(last)
                               ELSE @]
    /\ UNCHANGED <<tasks, now, clientVars, workerVars, enqLog, readEnabled,
                   calls, lastReq, textVars, histVars>>

(* ------------------------ reasoning_formatter ------------------------- *)

(* A text is a sequence of words separated by single blanks: connectives   *)
(* of the split patterns, the comma, and plain words.  Its str is Join.    *)
Vocabulary == {"a", ",", "puisque", "plutot que", "donc", "toujours"}
Texts == UNION {[1..n -> Vocabulary] : n \in 0..MaxWords}

RECURSIVE Join(_)
Join(words) ==
    IF words = <<>> THEN ""
    ELSE IF Len(words) = 1 THEN words[1]
    ELSE words[1] \o " " \o Join(Tail(words))

(* JSON / Python values: str, number (by its digits), None, list of str,   *)
(* list of numbers.                                                        *)
JStr(s) == [t |-> "str", s |-> s, l |-> <<>>]
JNum(digits) == [t |-> "num", s |-> digits, l |-> <<>>]
JNull == [t |-> "null", s |-> "", l |-> <<>>]
JList(l) == [t |-> "list", s |-> "", l |-> l]
JNumList(l) == [t |-> "numlist", s |-> "", l |-> l]

(* bool(value) *)
Truthy(v) ==
    CASE v.t = "str" -> v.s # ""
      [] v.t = "num" -> v.s # "0"
      [] v.t = "null" -> FALSE
      [] OTHER -> v.l # <<>>

(* {} *)
EmptyDict == [k \in {} |-> JNull]

(* data.get(key) *)
Get(data, key) == IF key \in DOMAIN data THEN data[key] ELSE JNull

(* _DECISION_SPLIT, in order.  open: the pattern ends in \s*, so it also   *)
(* matches at the end of the text; the others need a word on both sides.   *)
DECISION_SPLIT ==
    <<[word |-> "car", field |-> "justification", open |-> FALSE, comma |-> FALSE],
      [word |-> "parce que", field |-> "justification", open |-> TRUE, comma |-> FALSE],
      [word |-> "puisque", field |-> "justification", open |-> TRUE, comma |-> FALSE],
      [word |-> "plutot que", field |-> "alternatives", open |-> FALSE, comma |-> FALSE],
      [word |-> "au lieu de", field |-> "alternatives", open |-> FALSE, comma |-> FALSE],
      [word |-> "et pas", field |-> "alternatives", open |-> FALSE, comma |-> FALSE]>>

(* _LECON_SPLIT, in order.  comma: the pattern starts with ,? and takes    *)
(* the comma before the connective into the match.                         *)
LECON_SPLIT ==
    <<[word |-> "donc", field |-> "correction", open |-> FALSE, comma |-> FALSE],
      [word |-> "alors", field |-> "correction", open |-> FALSE, comma |-> FALSE],
      [word |-> "maintenant", field |-> "correction", open |-> FALSE, comma |-> FALSE],
      [word |-> "dorenavant", field |-> "correction", open |-> FALSE, comma |-> FALSE],
      [word |-> "faut", field |-> "correction", open |-> FALSE, comma |-> TRUE],
      [word |-> "il faut", field |-> "correction", open |-> FALSE, comma |-> TRUE]>>

(* re.search(pattern, text): the leftmost word the pattern matches at, 0   *)
(* when there is none.  The text is stripped, so \s+ before the connective *)
(* needs a word before it.                                                 *)
ReSearch(words, pat) ==
    LET hits == {i \in DOMAIN words :
                    /\ words[i] = pat.word
                    /\ i > 1
                    /\ pat.open \/ i < Len(words)}
    IN IF hits = {} THEN 0 ELSE CHOOSE i \in hits : \A j \in hits : i <= j

(* text[:match.start()].strip() *)
Before(words, pat, i) ==
    IF pat.comma /\ words[i - 1] = ","
    THEN SubSeq(words, 1, i - 2)
    ELSE SubSeq(words, 1, i - 1)

(* text[match.end():].strip() *)
After(words, i) == SubSeq(words, i + 1, Len(words))

(* The first pattern of the list that matches, 0 when none does. *)
FirstMatching(words, patterns) ==
    LET hits == {n \in DOMAIN patterns : ReSearch(words, patterns[n]) > 0}
    IN IF hits = {} THEN 0 ELSE CHOOSE n \in hits : \A m \in hits : n <= m

(* [a.strip() for a in after.split(",") if a.strip()] *)
RECURSIVE SplitComma(_, _)
SplitComma(words, part) ==
    LET done == IF part = <<>> THEN <<>> ELSE <<Join(part)>>
    IN IF words = <<>> THEN done
       ELSE IF words[1] = "," THEN done \o SplitComma(Tail(words), <<>>)
       ELSE SplitComma(Tail(words), Append(part, words[1]))

(* _extract_decision *)
ExtractDecision(words) ==
    LET n == FirstMatching(words, DECISION_SPLIT)
        i == ReSearch(words, DECISION_SPLIT[n])
        before == Join(Before(words, DECISION_SPLIT[n], i))
    IN IF n = 0
       THEN [choix |-> JStr(Join(words)), justification |-> JStr(""),
             alternatives |-> JList(<<>>)]
       ELSE IF DECISION_SPLIT[n].field = "justification"
       THEN [choix |-> JStr(before),
             justification |-> JStr(Join(After(words, i))),
             alternatives |-> JList(<<>>)]
       ELSE [choix |-> JStr(before), justification |-> JStr(""),
             alternatives |-> JList(SplitComma(After(words, i), <<>>))]

(* _extract_doute *)
ExtractDoute(words) == [question |-> JStr(Join(words)), contexte |-> JStr("")]

(* re.search(r"(ne\s+jamais|toujours|il\s+faut)", text) *)
HasRule(words) ==
    \E i \in DOMAIN words : words[i] \in {"ne jamais", "toujours", "il faut"}

(* _extract_lecon *)
ExtractLecon(words) ==
    LET n == FirstMatching(words, LECON_SPLIT)
        i == ReSearch(words, LECON_SPLIT[n])
        text == Join(words)
        split == [erreur |-> JStr(Join(Before(words, LECON_SPLIT[n], i))),
                  correction |-> JStr(Join(After(words, i))),
                  regle_extraite |-> JStr("")]
        whole == [erreur |-> JStr(text), correction |-> JStr(""),
                  regle_extraite |-> JStr("")]
        data == IF n = 0 THEN whole ELSE split
    IN IF ~Truthy(data.correction) /\ HasRule(words)
       THEN [data EXCEPT !.regle_extraite = JStr(text), !.correction = JStr(text)]
       ELSE data

(* extract_heuristic *)
ExtractHeuristic(words, tag) ==
    CASE tag = "decision" -> ExtractDecision(words)
      [] tag = "doute" -> ExtractDoute(words)
      [] tag = "lecon" -> ExtractLecon(words)
      [] OTHER -> EmptyDict

Min2(a, b) == IF a <= b THEN a ELSE b

(* The weights of compute_confidence, in hundredths. *)
WEIGHTS ==
    [decision |-> [choix |-> 50, justification |-> 30, contexte |-> 20],
     doute    |-> [question |-> 70, contexte |-> 30],
     lecon    |-> [erreur |-> 40, correction |-> 40, regle_extraite |-> 20]]

(* The sum of the weights of the keys whose value in data is truthy. *)
RECURSIVE SumWeights(_, _, _)
SumWeights(data, weights, keys) ==
    IF keys = {} THEN 0
    ELSE LET k == CHOOSE x \in keys : TRUE
         IN (IF Truthy(Get(data, k)) THEN weights[k] ELSE 0)
            + SumWeights(data, weights, keys \ {k})

(* Mutant of ComputeConfidence: the bonus is added without min(1.0, ...). *)
ComputeConfidenceNoCap(data, tag, forced) ==
    LET score == IF tag \in DOMAIN WEIGHTS
                 THEN SumWeights(data, WEIGHTS[tag], DOMAIN WEIGHTS[tag])
                 ELSE 0
    IN IF forced THEN score + FORCED_BONUS ELSE score

(* compute_confidence, in hundredths: round(score, 2) of these sums is the *)
(* exact hundredth.                                                        *)
ComputeConfidence(data, tag, forced) ==
    LET score == IF tag \in DOMAIN WEIGHTS
                 THEN SumWeights(data, WEIGHTS[tag], DOMAIN WEIGHTS[tag])
                 ELSE 0
    IN IF forced THEN Min2(100, score + FORCED_BONUS) ELSE score

(* What llm_provider.chat does: it raises, or it returns a text that is    *)
(* not JSON, or the JSON text of a value that is not an object, or the     *)
(* JSON text of an object.                                                 *)
LlmRaises == [kind |-> "raises", value |-> JNull, obj |-> EmptyDict]
LlmText == [kind |-> "text", value |-> JNull, obj |-> EmptyDict]
LlmValue(v) == [kind |-> "value", value |-> v, obj |-> EmptyDict]
LlmObject(f) == [kind |-> "object", value |-> JNull, obj |-> f]

TextKeys ==
    {"choix", "justification", "contexte", "question", "erreur", "correction",
     "regle_extraite"}
SingleKeys == {"choix", "justification", "contexte", "alternatives", "source_type"}
FieldValues == {JStr(""), JStr("x"), JNum("7"), JNumList(<<"7">>)}
LlmObjects ==
    {EmptyDict}
    \cup {[k \in {key} |-> v] : key \in SingleKeys, v \in FieldValues}
    \cup {[k \in TextKeys |-> JStr("x")],
          [k \in TextKeys \cup {"alternatives"} |->
              IF k = "alternatives" THEN JList(<<"x", "y">>) ELSE JStr("x")],
          [k \in {"source_type"} |-> JStr("expertise")],
          [k \in {"source_type", "source_ref"} |->
              IF k = "source_type" THEN JStr("expertise") ELSE JStr("x")]}
LlmReplies ==
    {LlmRaises, LlmText}
    \cup {LlmValue(v) : v \in {JNum("0"), JNum("7"), JStr("x"), JList(<<"x">>)}}
    \cup {LlmObject(f) : f \in LlmObjects}

(* The tags _LLM_PROMPTS has a prompt for. *)
LLM_PROMPTS == {"decision", "doute", "lecon"}

(* extract_llm: {} without a call when the tag has no prompt, {} when the  *)
(* call raises or json.loads fails, else whatever json.loads returns.      *)
ExtractLlm(tag, reply) ==
    IF tag \notin LLM_PROMPTS \/ reply.kind \in {"raises", "text"}
    THEN LlmObject(EmptyDict)
    ELSE reply

(* bool(llm_data) *)
LlmTruthy(llm_data) ==
    IF llm_data.kind = "object" THEN DOMAIN llm_data.obj # {}
    ELSE Truthy(llm_data.value)

(* Mutant of Copies: every non-empty returned value is copied. *)
CopiesAll(data, obj, key) == key \in DOMAIN obj /\ Truthy(obj[key])

(* if value and not data.get(key) *)
Copies(data, obj, key) ==
    key \in DOMAIN obj /\ Truthy(obj[key]) /\ ~Truthy(Get(data, key))

(* for key, value in llm_data.items(): ... data[key] = value *)
Merge(data, obj) ==
    [k \in DOMAIN data \cup {x \in DOMAIN obj : Copies(data, obj, x)} |->
        IF Copies(data, obj, k) THEN obj[k] ELSE data[k]]

(* reasoning_models: the fields of the three models. *)
SourceType ==
    {"certified", "verified", "unverified", "expertise", "ia", "obsolete"}
Field(name, type, allowed, required, default) ==
    [name |-> name, type |-> type, allowed |-> allowed, required |-> required,
     default |-> default]
DecisionInput ==
    {Field("schema_version", "str", {}, FALSE, JStr("1.0")),
     Field("decision_id", "str", {}, FALSE, JStr("uuid4")),
     Field("choix", "str", {}, TRUE, JNull),
     Field("contexte", "str", {}, FALSE, JStr("")),
     Field("justification", "str", {}, FALSE, JStr("")),
     Field("alternatives", "list_str", {}, FALSE, JList(<<>>)),
     Field("source_type", "literal", SourceType, FALSE, JStr("unverified")),
     Field("source_ref", "opt_str", {}, FALSE, JNull),
     Field("valid_from", "datetime", {}, FALSE, JStr("utcnow")),
     Field("statut", "literal", {"active", "replaced", "revoked"}, FALSE,
           JStr("active")),
     Field("remplace_decision_id", "opt_str", {}, FALSE, JNull)}
DouteInput ==
    {Field("schema_version", "str", {}, FALSE, JStr("1.0")),
     Field("doute_id", "str", {}, FALSE, JStr("uuid4")),
     Field("question", "str", {}, TRUE, JNull),
     Field("contexte", "str", {}, FALSE, JStr("")),
     Field("statut", "literal", {"ouvert", "resolu", "invalide"}, FALSE,
           JStr("ouvert")),
     Field("resolution", "opt_str", {}, FALSE, JNull),
     Field("source_type", "literal", SourceType, FALSE, JStr("unverified")),
     Field("valid_from", "datetime", {}, FALSE, JStr("utcnow"))}
ApprentissageInput ==
    {Field("schema_version", "str", {}, FALSE, JStr("1.0")),
     Field("apprentissage_id", "str", {}, FALSE, JStr("uuid4")),
     Field("erreur", "str", {}, TRUE, JNull),
     Field("correction", "str", {}, TRUE, JNull),
     Field("regle_extraite", "str", {}, FALSE, JStr("")),
     Field("contexte", "str", {}, FALSE, JStr("")),
     Field("source_type", "literal", SourceType, FALSE, JStr("verified")),
     Field("source_ref", "opt_str", {}, FALSE, JNull),
     Field("valid_from", "datetime", {}, FALSE, JStr("utcnow"))}

(* model_cls = {"decision": DecisionInput, ...}.get(tag) *)
ModelCls(tag) ==
    CASE tag = "decision" -> DecisionInput
      [] tag = "doute" -> DouteInput
      [] tag = "lecon" -> ApprentissageInput
      [] OTHER -> {}

(* The value a field takes: the one given, else its default. *)
FieldValue(model, data, name) ==
    IF name \in DOMAIN data THEN data[name]
    ELSE (CHOOSE f \in model : f.name = name).default

(* Whether a value is accepted for a field of the declared type. *)
TypeOk(f, v) ==
    CASE f.type = "str" -> v.t = "str"
      [] f.type = "opt_str" -> v.t \in {"str", "null"}
      [] f.type = "list_str" -> v.t = "list"
      [] f.type = "literal" -> v.t = "str" /\ v.s \in f.allowed
      [] OTHER -> v.t = "str" /\ v.s = "utcnow"

(* DecisionInput.expertise_needs_ref raises. *)
ExpertiseNeedsRef(data) ==
    /\ FieldValue(DecisionInput, data, "source_type") = JStr("expertise")
    /\ ~Truthy(FieldValue(DecisionInput, data, "source_ref"))

(* model_cls called on the keys of data does not raise. *)
Validates(tag, data) ==
    /\ \A f \in ModelCls(tag) :
          /\ f.required => f.name \in DOMAIN data
          /\ f.name \in DOMAIN data => TypeOk(f, data[f.name])
    /\ tag = "decision" => ~ExpertiseNeedsRef(data)

(* instance.model_dump(mode="json") *)
ModelDump(tag, data) ==
    [name \in {f.name : f \in ModelCls(tag)} |->
        FieldValue(ModelCls(tag), data, name)]

(* The fields of TEMPLATES[tag]. *)
TEMPLATES ==
    [decision |-> {"date", "decision_id", "choix", "contexte", "justification",
                   "alternatives", "source_type", "source_ref_suffix", "statut"},
     doute    |-> {"date", "doute_id", "question", "contexte", "statut"},
     lecon    |-> {"date", "apprentissage_id", "erreur", "correction",
                   "regle_extraite", "source_type", "source_ref_suffix"}]

(* "—" *)
Placeholder == "--"

SKIP_KEYS ==
    {"date", "source_ref_suffix", "alternatives", "source_ref", "valid_from",
     "schema_version", "remplace_decision_id", "decision_id", "doute_id",
     "apprentissage_id", "resolution"}

(* str(value), as str.format and the f-string insert it. *)
Show(v) ==
    CASE v.t \in {"str", "num"} -> v.s
      [] v.t = "null" -> "None"
      [] OTHER -> "[...]"

(* ", ".join(alts) *)
RECURSIVE JoinComma(_)
JoinComma(l) ==
    IF Len(l) = 1 THEN l[1] ELSE l[1] \o ", " \o JoinComma(Tail(l))

(* values.get("alternatives", []) *)
Alts(data) ==
    IF "alternatives" \in DOMAIN data THEN data["alternatives"] ELSE JList(<<>>)

(* ", ".join(alts) raises TypeError: an item of the list is not a str. *)
JoinRaises(data, tag) ==
    tag \in DOMAIN TEMPLATES /\ Alts(data).t = "numlist" /\ Alts(data).l # <<>>

(* The values handed to template.format. *)
Values(data) ==
    [k \in DOMAIN data \cup {"date", "alternatives", "source_ref_suffix"} |->
        CASE k = "date" -> "utcnow"
          [] k = "alternatives" ->
                IF Alts(data).t = "list"
                THEN IF Alts(data).l # <<>> THEN JoinComma(Alts(data).l)
                     ELSE Placeholder
                ELSE IF ~Truthy(Alts(data)) THEN Placeholder
                ELSE Show(Alts(data))
          [] k = "source_ref_suffix" ->
                IF Truthy(Get(data, "source_ref"))
                THEN " -- " \o Show(Get(data, "source_ref"))
                ELSE ""
          [] OTHER ->
                IF k \notin SKIP_KEYS /\ data[k] \in {JStr(""), JNull}
                THEN Placeholder
                ELSE Show(data[k])]

(* return str(data) *)
StrData == [form |-> "str(data)", values |-> [k \in {} |-> ""]]

(* render_template, when the join does not raise. *)
RenderTemplate(data, tag) ==
    LET values == Values(data)
    IN IF tag \notin DOMAIN TEMPLATES THEN StrData
       ELSE IF TEMPLATES[tag] \subseteq DOMAIN values
       THEN [form |-> "template", values |-> [k \in TEMPLATES[tag] |-> values[k]]]
       ELSE StrData

(* Mutant of NeedsRepair: the threshold itself asks for the repair. *)
NeedsRepairAtThreshold(score) == score <= REVIEW_THRESHOLD

(* if score < REVIEW_THRESHOLD and llm_provider: *)
NeedsRepair(score) == score < REVIEW_THRESHOLD

(* format_reasoning: what it returns or raises, with the LLM calls made    *)
(* and the record and score at each stage.                                 *)
FormatReasoning(words, tag, forced, reply) ==
    LET heuristic == ExtractHeuristic(words, tag)
        first     == ComputeConfidence(heuristic, tag, forced)
        asks      == NeedsRepair(first)
        llm_data  == IF asks THEN ExtractLlm(tag, reply) ELSE LlmObject(EmptyDict)
        chats     == IF asks /\ tag \in LLM_PROMPTS THEN 1 ELSE 0
        repairs   == asks /\ LlmTruthy(llm_data)
        data      == IF repairs THEN Merge(heuristic, llm_data.obj) ELSE heuristic
        scored    == IF repairs THEN ComputeConfidence(data, tag, forced) ELSE first
        hasModel  == ModelCls(tag) # {}
        valid     == hasModel /\ Validates(tag, data)
        record    == IF valid THEN ModelDump(tag, data) ELSE data
        score     == IF hasModel /\ ~valid THEN Min2(scored, VALIDATION_CAP)
                     ELSE scored
        stages    == [heuristic |-> heuristic, first |-> first, chats |-> chats,
                      data |-> data, scored |-> scored,
                      validation |-> IF ~hasModel THEN "none"
                                     ELSE IF valid THEN "passed" ELSE "failed"]
    IN IF repairs /\ llm_data.kind # "object"
       THEN [status |-> "raised", error |-> "AttributeError",
             stages |-> [stages EXCEPT !.data = heuristic, !.scored = first,
                                       !.validation = "none"]]
       ELSE IF JoinRaises(record, tag)
       THEN [status |-> "raised", error |-> "TypeError", stages |-> stages]
       ELSE [status |-> "returned", text |-> RenderTemplate(record, tag),
             record |-> record, score |-> score, stages |-> stages]

(* format_reasoning has not been called. *)
NoPipe == [phase |-> "idle"]

(* One call of format_reasoning. *)
FormatReasoningCall(words, tag, forced, reply) ==
    /\ pipe.phase = "idle"
    /\ pipe' = [phase |-> "done", words |-> words, tag |-> tag,
                forced |-> forced, reply |-> reply,
                out |-> FormatReasoning(words, tag, forced, reply)]
    /\ UNCHANGED <<tasks, now, clientVars, workerVars, enqLog, apiVars, classif, histVars>>

(* The tags format_reasoning is called with: the three reasoning tags and  *)
(* one that has neither prompt, model nor template.                        *)
PipelineTags == {"decision", "doute", "lecon", "probleme"}

(* -------------------------- intent_detector --------------------------- *)

(* A text is a sequence of characters; a character outside ASCII is named  *)
(* by its code point.  The texts classified are made of phrases separated  *)
(* by one blank.                                                           *)
Phrases ==
    {<<>>,
     <<"Q", "u", "e", "l">>,
     <<"?">>,
     <<"f", "i", "n", "a", "l", "e", "m", "e", "n", "t">>,
     <<"o", "u", "b", "l", "i", "e">>,
     <<"i", "l", " ", "f", "a", "u", "t", " ", "t", "o", "u", "j", "o", "u", "r", "s", " ", "v", "U+00E9", "r", "i", "f", "i", "e", "r", " ", "a", "v", "a", "n", "t", " ", "d", "e", " ", "v", "a", "l", "i", "d", "e", "r">>,
     <<"o", "n", " ", "p", "r", "e", "n", "d">>,
     <<"d", "i", "l", "e", "m", "m", "e">>,
     <<"s", "o", "u", "c", "i">>,
     <<"o", "u", " ", "b", "i", "e", "n">>,
     <<"u", "r", "g", "e", "n", "t">>,
     <<"c", "e", " ", "s", "o", "i", "r">>,
     <<"q", "u", "i", "c", "h", "e">>}

RECURSIVE JoinPhrases(_)
JoinPhrases(ps) ==
    IF ps = <<>> THEN <<>>
    ELSE IF Len(ps) = 1 THEN ps[1]
    ELSE ps[1] \o <<" ">> \o JoinPhrases(Tail(ps))

Messages ==
    {JoinPhrases(ps) : ps \in UNION {[1..n -> Phrases] : n \in 0..MaxPhrases}}

(* str.lower(), on the letters of the patterns' alphabet. *)
UPPER == <<"A", "B", "C", "D", "E", "F", "G", "H", "I", "J", "K", "L", "M", "N", "O", "P", "Q", "R", "S", "T", "U", "V", "W", "X", "Y", "Z", "U+00C9", "U+00C8", "U+00C7", "U+00C0", "U+00D9", "U+00D4", "U+00DB">>
LOWER == <<"a", "b", "c", "d", "e", "f", "g", "h", "i", "j", "k", "l", "m", "n", "o", "p", "q", "r", "s", "t", "u", "v", "w", "x", "y", "z", "U+00E9", "U+00E8", "U+00E7", "U+00E0", "U+00F9", "U+00F4", "U+00FB">>
LowerChar(c) ==
    IF \E i \in DOMAIN UPPER : UPPER[i] = c
    THEN LOWER[CHOOSE i \in DOMAIN UPPER : UPPER[i] = c]
    ELSE c
Lower(text) == [i \in DOMAIN text |-> LowerChar(text[i])]

(* str.strip() *)
Whitespace == {" ", "\t", "\n"}
RECURSIVE Strip(_)
Strip(text) ==
    IF text = <<>> THEN text
    ELSE IF text[1] \in Whitespace THEN Strip(Tail(text))
    ELSE IF text[Len(text)] \in Whitespace
    THEN Strip(SubSeq(text, 1, Len(text) - 1))
    ELSE text

(* \w: every character of the texts but blanks and punctuation. *)
WordChar(c) ==
    c \notin Whitespace \cup {"?", "!", ".", ",", ":", ";", "-", "'", "U+2019"}

(* One alternative of a pattern: whether it is anchored by ^, its atoms    *)
(* (a set of characters each, Dot for ".", DotPlus for ".+"), and what     *)
(* follows: "b" for \b, "$" for $, "" for nothing.                         *)
Dot == {"."}
DotPlus == {".+"}
Lit(cs) == [i \in DOMAIN cs |-> {cs[i]}]
Alt(start, atoms, tail) == [start |-> start, atoms |-> atoms, tail |-> tail]

(* INTENT_PATTERNS: the groups in the order of the dict,
    each with the        *)
(* alternatives of its patterns.                                           *)
INTENT_PATTERNS ==
    <<[name |-> "question", alts |-> <<
          Alt(TRUE, Lit(<<"q", "u">>) \o <<{"'", "U+2019"}>> \o Lit(<<"e",
              "s", "t">>) \o <<Dot>> \o Lit(<<"c", "e">>), "b"),
          Alt(TRUE, Lit(<<"q", "u", "e", "l">>), "b"),
          Alt(TRUE, Lit(<<"q", "u", "e", "l", "s">>), "b"),
          Alt(TRUE, Lit(<<"q", "u", "e", "l", "l", "e">>), "b"),
          Alt(TRUE, Lit(<<"q", "u", "e", "l", "l", "e", "s">>), "b"),
          Alt(TRUE, Lit(<<"c", "o", "m", "b", "i", "e", "n">>), "b"),
          Alt(TRUE, Lit(<<"c", "o", "m", "m", "e", "n", "t">>), "b"),
          Alt(TRUE, Lit(<<"p", "o", "u", "r", "q", "u", "o", "i">>), "b"),
          Alt(TRUE, Lit(<<"o">>) \o <<{"u", "U+00F9"}>>, "b"),
          Alt(TRUE, Lit(<<"q", "u", "a", "n", "d">>), "b"),
          Alt(TRUE, Lit(<<"q", "u", "i">>), "b"),
          Alt(FALSE, Lit(<<"?">>), "$"),
          Alt(TRUE, Lit(<<"d", "i", "s">>) \o <<Dot>> \o Lit(<<"m", "o",
              "i">>), ""),
          Alt(TRUE, Lit(<<"r", "a", "p", "p", "e", "l", "l", "e">>)
              \o <<Dot>> \o Lit(<<"m", "o", "i">>), ""),
          Alt(TRUE, Lit(<<"c">>) \o <<{"'", "U+2019"}>> \o Lit(<<"e", "s",
              "t", " ", "q", "u", "o", "i">>), ""),
          Alt(TRUE, Lit(<<"o", "n", " ", "a", " ", "q", "u", "o", "i", " ",
              "s", "u", "r">>), ""),
          Alt(TRUE, Lit(<<"r">>) \o <<{"e", "U+00E9"}>> \o Lit(<<"s", "u",
              "m", "e">>), ""),
          Alt(TRUE, Lit(<<"r">>) \o <<{"e", "U+00E9"}>> \o Lit(<<"c", "a",
              "p">>), ""),
          Alt(TRUE, Lit(<<"r">>) \o <<{"e", "U+00E9"}>> \o Lit(<<"s", "u",
              "m">>) \o <<{"e", "U+00E9"}>>, "")>>],
     [name |-> "correction", alts |-> <<
          Alt(FALSE, Lit(<<"f", "i", "n", "a", "l", "e", "m", "e", "n",
              "t">>), ""),
          Alt(FALSE, Lit(<<"e", "n", " ", "f", "a", "i", "t">>), ""),
          Alt(FALSE, Lit(<<"c", "o", "r", "r", "e", "c", "t", "i", "o",
              "n">>), ""),
          Alt(FALSE, Lit(<<"r", "e", "c", "t", "i", "f", "i", "c", "a", "t",
              "i", "o", "n">>), ""),
          Alt(FALSE, Lit(<<"e", "r", "r", "e", "u", "r">>), ""),
          Alt(FALSE, Lit(<<"j", "e", " ", "c", "o", "r", "r", "i", "g",
              "e">>), ""),
          Alt(FALSE, Lit(<<"j", "e", " ", "r", "e", "c", "t", "i", "f", "i",
              "e">>), ""),
          Alt(FALSE, Lit(<<"c">>) \o <<{"'", "U+2019"}>> \o Lit(<<"e", "s",
              "t", " ", "p", "a", "s">>), ""),
          Alt(FALSE, Lit(<<"c">>) \o <<{"'", "U+2019"}>> \o Lit(<<"e", "s",
              "t", " ", "p", "l", "u", "t">>) \o <<{"o", "U+00F4"}>>
              \o Lit(<<"t">>), ""),
          Alt(FALSE, Lit(<<"n", "o", "n", " ", "e", "n", " ", "f", "a", "i",
              "t">>), ""),
          Alt(FALSE, Lit(<<"a", "u", " ", "f", "i", "n", "a", "l">>), ""),
          Alt(FALSE, Lit(<<"j", "e", " ", "m", "e", " ", "s", "u", "i", "s",
              " ", "t", "r", "o", "m", "p">>) \o <<{"e", "U+00E9"}>>, ""),
          Alt(FALSE, Lit(<<"i", "l", " ", "f", "a", "u", "t", " ", "c", "h",
              "a", "n", "g", "e", "r">>), ""),
          Alt(FALSE, Lit(<<"r", "e", "m", "p", "l", "a", "c", "e", "r", " ",
              "p", "a", "r">>), ""),
          Alt(FALSE, Lit(<<"a", "u", " ", "l", "i", "e", "u", " ", "d",
              "e">>), "")>>],
     [name |-> "forget", alts |-> <<
          Alt(TRUE, Lit(<<"o", "u", "b", "l", "i", "e">>), ""),
          Alt(TRUE, Lit(<<"s", "u", "p", "p", "r", "i", "m", "e">>), ""),
          Alt(TRUE, Lit(<<"e", "f", "f", "a", "c", "e">>), ""),
          Alt(TRUE, Lit(<<"r", "e", "t", "i", "r", "e">>), ""),
          Alt(TRUE, Lit(<<"a", "n", "n", "u", "l", "e">>), ""),
          Alt(FALSE, Lit(<<"c">>) \o <<{"'", "U+2019"}>> \o Lit(<<"e", "s",
              "t", " ", "p", "l", "u", "s", " ", "d">>) \o <<{"'",
              "U+2019"}>> \o Lit(<<"a", "c", "t", "u", "a", "l", "i",
              "t">>) \o <<{"e", "U+00E9"}>>, ""),
          Alt(FALSE, Lit(<<"c">>) \o <<{"'", "U+2019"}>> \o Lit(<<"e", "s",
              "t", " ", "a", "n", "n", "u", "l">>) \o <<{"e", "U+00E9"}>>,
              ""),
          Alt(FALSE, Lit(<<"o", "n", " ", "a", "n", "n", "u", "l", "e">>),
              "")>>]>>

(* BUSINESS_TAGS: the groups in the order of the dict. *)
BUSINESS_TAGS ==
    <<[name |-> "decision", alts |-> <<
          Alt(FALSE, Lit(<<"o", "n", " ", "a", " ", "d">>) \o <<{"e",
              "U+00E9"}>> \o Lit(<<"c", "i", "d">>) \o <<{"e", "U+00E9"}>>,
              ""),
          Alt(FALSE, Lit(<<"d">>) \o <<{"e", "U+00E9"}>> \o Lit(<<"c", "i",
              "s", "i", "o", "n">>), ""),
          Alt(FALSE, Lit(<<"o", "n", " ", "p", "r", "e", "n", "d">>), ""),
          Alt(FALSE, Lit(<<"o", "n", " ", "c", "h", "o", "i", "s", "i",
              "t">>), ""),
          Alt(FALSE, Lit(<<"c">>) \o <<{"'", "U+2019"}>> \o Lit(<<"e", "s",
              "t", " ", "v", "a", "l", "i", "d">>) \o <<{"e", "U+00E9"}>>,
              ""),
          Alt(FALSE, Lit(<<"o", "n", " ", "p", "a", "r", "t", " ", "s", "u",
              "r">>), ""),
          Alt(FALSE, Lit(<<"o", "n", " ", "r", "e", "t", "i", "e", "n",
              "t">>), ""),
          Alt(FALSE, Lit(<<"v", "a", "l", "i", "d", "a", "t", "i", "o",
              "n">>), ""),
          Alt(FALSE, Lit(<<"v", "a", "l", "i", "d">>) \o <<{"e",
              "U+00E9"}>> \o Lit(<<" ", "p", "a", "r">>), ""),
          Alt(FALSE, Lit(<<"a", "p", "p", "r", "o", "u", "v">>) \o <<{"e",
              "U+00E9"}>>, "")>>],
     [name |-> "lecon", alts |-> <<
          Alt(FALSE, Lit(<<"l", "e">>) \o <<{"c", "U+00E7"}>> \o Lit(<<"o",
              "n">>), ""),
          Alt(FALSE, Lit(<<"o", "n", " ", "a", " ", "a", "p", "p", "r", "i",
              "s">>), ""),
          Alt(FALSE, Lit(<<"n", "e", " ", "p", "l", "u", "s", " ", "j", "a",
              "m", "a", "i", "s">>), ""),
          Alt(FALSE, Lit(<<"d", "o", "r">>) \o <<{"e", "U+00E9"}>>
              \o Lit(<<"n", "a", "v", "a", "n", "t">>), ""),
          Alt(FALSE, Lit(<<"p", "i">>) \o <<{"e", "U+00E8"}>> \o Lit(<<"g",
              "e">>), ""),
          Alt(FALSE, Lit(<<"r", "e", "t", "e", "n", "i", "r", " ", "q", "u",
              "e">>), ""),
          Alt(FALSE, Lit(<<"l", "a", " ", "p", "r", "o", "c", "h", "a", "i",
              "n", "e", " ", "f", "o", "i", "s">>), ""),
          Alt(FALSE, Lit(<<"n", "e", " ", "j", "a", "m", "a", "i", "s">>),
              ""),
          Alt(FALSE, Lit(<<"t", "o", "u", "j", "o", "u", "r", "s", " ",
              "v">>) \o <<{"e", "U+00E9"}>> \o Lit(<<"r", "i", "f", "i", "e",
              "r">>), ""),
          Alt(FALSE, Lit(<<"r">>) \o <<{"e", "U+00E8"}>> \o Lit(<<"g", "l",
              "e">>), "b"),
          Alt(FALSE, Lit(<<"e", "r", "r", "e", "u", "r">>) \o <<DotPlus>>
              \o Lit(<<"c", "o", "r", "r", "e", "c", "t", "i", "o", "n">>),
              ""),
          Alt(FALSE, Lit(<<"e", "r", "r", "e", "u", "r">>) \o <<DotPlus>>
              \o Lit(<<"m", "a", "i", "n", "t", "e", "n", "a", "n", "t">>),
              "")>>],
     [name |-> "doute", alts |-> <<
          Alt(FALSE, Lit(<<"j">>) \o <<{"'", "U+2019"}>> \o Lit(<<"h">>)
              \o <<{"e", "U+00E9"}>> \o Lit(<<"s", "i", "t", "e">>), ""),
          Alt(FALSE, Lit(<<"o", "n", " ", "h">>) \o <<{"e", "U+00E9"}>>
              \o Lit(<<"s", "i", "t", "e", " ", "e", "n", "t", "r", "e">>),
              ""),
          Alt(FALSE, Lit(<<"p", "a", "s", " ", "s">>) \o <<{"u",
              "U+00FB"}>> \o Lit(<<"r">>), ""),
          Alt(FALSE, Lit(<<"i", "n", "c", "e", "r", "t", "a", "i", "n">>),
              ""),
          Alt(FALSE, Lit(<<"j", "e", " ", "s", "a", "i", "s", " ", "p", "a",
              "s">>), ""),
          Alt(FALSE, Lit(<<"j", "e", " ", "m", "e", " ", "d", "e", "m", "a",
              "n", "d", "e">>), ""),
          Alt(FALSE, Lit(<<"o", "n", " ", "d", "e", "v", "r", "a", "i",
              "t">>), ""),
          Alt(FALSE, Lit(<<"f", "a", "u", "t">>) \o <<Dot>> \o Lit(<<"i",
              "l">>), ""),
          Alt(FALSE, Lit(<<"v", "a", "u", "t">>) \o <<Dot>> \o Lit(<<"i",
              "l", " ", "m", "i", "e", "u", "x">>), ""),
          Alt(FALSE, Lit(<<"d", "i", "l", "e", "m", "m", "e">>), ""),
          Alt(FALSE, Lit(<<"h">>) \o <<{"e", "U+00E9"}>> \o Lit(<<"s", "i",
              "t", "a", "t", "i", "o", "n">>), "")>>],
     [name |-> "probleme", alts |-> <<
          Alt(FALSE, Lit(<<"p", "r", "o", "b", "l">>) \o <<{"e",
              "U+00E8"}>> \o Lit(<<"m", "e">>), ""),
          Alt(FALSE, Lit(<<"s", "o", "u", "c", "i">>), ""),
          Alt(FALSE, Lit(<<"b", "l", "o", "c", "a", "g", "e">>), ""),
          Alt(FALSE, Lit(<<"b", "l", "o", "q", "u">>) \o <<{"e", "U+00E9"}>>,
              ""),
          Alt(FALSE, <<{"c", "U+00E7"}>> \o Lit(<<"a", " ", "p", "a", "s",
              "s", "e", " ", "p", "a", "s">>), ""),
          Alt(FALSE, <<{"c", "U+00E7"}>> \o Lit(<<"a", " ", "m", "a", "r",
              "c", "h", "e", " ", "p", "a", "s">>), ""),
          Alt(FALSE, Lit(<<"a", "t", "t", "e", "n", "t", "i", "o", "n">>),
              ""),
          Alt(FALSE, Lit(<<"v", "i", "g", "i", "l", "a", "n", "c", "e">>),
              ""),
          Alt(FALSE, Lit(<<"r", "i", "s", "q", "u", "e">>), ""),
          Alt(FALSE, Lit(<<"i", "n", "c", "i", "d", "e", "n", "t">>), ""),
          Alt(FALSE, Lit(<<"p", "a", "n", "n", "e">>), ""),
          Alt(FALSE, Lit(<<"d">>) \o <<{"e", "U+00E9"}>> \o Lit(<<"f", "a",
              "u", "t">>), "")>>],
     [name |-> "option", alts |-> <<
          Alt(FALSE, Lit(<<"o", "p", "t", "i", "o", "n">>), ""),
          Alt(FALSE, Lit(<<"a", "l", "t", "e", "r", "n", "a", "t", "i", "v",
              "e">>), ""),
          Alt(FALSE, Lit(<<"s", "o", "i", "t", " ">>) \o <<DotPlus>>
              \o Lit(<<" ", "s", "o", "i", "t">>), ""),
          Alt(FALSE, Lit(<<"o", "u", " ", "b", "i", "e", "n">>), ""),
          Alt(FALSE, <<{"a", "U+00E0"}>> \o Lit(<<" ", "v", "o", "i", "r">>),
              ""),
          Alt(FALSE, Lit(<<"p", "r", "o", "p", "o", "s", "i", "t", "i", "o",
              "n">>), ""),
          Alt(FALSE, Lit(<<"o", "n", " ", "e", "n", "v", "i", "s", "a", "g",
              "e">>), ""),
          Alt(FALSE, <<{"e", "U+00E9"}>> \o Lit(<<"v", "e", "n", "t", "u",
              "e", "l", "l", "e", "m", "e", "n", "t">>), "")>>],
     [name |-> "rappel", alts |-> <<
          Alt(FALSE, Lit(<<"r", "a", "p", "p", "e", "l">>), ""),
          Alt(FALSE, <<{"a", "U+00E0"}>> \o Lit(<<" ", "f", "a", "i", "r",
              "e">>), ""),
          Alt(FALSE, Lit(<<"p", "e", "n", "s", "e", "r", " ">>) \o <<{"a",
              "U+00E0"}>>, ""),
          Alt(FALSE, Lit(<<"n", "e", " ", "p", "a", "s", " ", "o", "u", "b",
              "l", "i", "e", "r">>), ""),
          Alt(FALSE, Lit(<<"i", "l", " ", "f", "a", "u", "t">>), ""),
          Alt(FALSE, Lit(<<"f", "a", "u", "t", " ", "q", "u", "e">>), ""),
          Alt(FALSE, Lit(<<"c", "o", "m", "m", "a", "n", "d", "e", "r">>),
              ""),
          Alt(FALSE, Lit(<<"a", "p", "p", "e", "l", "e", "r">>), ""),
          Alt(FALSE, Lit(<<"r", "e", "l", "a", "n", "c", "e", "r">>), ""),
          Alt(FALSE, Lit(<<"e", "n", "v", "o", "y", "e", "r">>), ""),
          Alt(FALSE, Lit(<<"p", "r">>) \o <<{"e", "U+00E9"}>> \o Lit(<<"p",
              "a", "r", "e", "r">>), ""),
          Alt(FALSE, Lit(<<"v">>) \o <<{"e", "U+00E9"}>> \o Lit(<<"r", "i",
              "f", "i", "e", "r">>), ""),
          Alt(FALSE, Lit(<<"a", "v", "a", "n", "t", " ", "v", "e", "n", "d",
              "r", "e", "d", "i">>), ""),
          Alt(FALSE, Lit(<<"a", "v", "a", "n", "t", " ", "l", "u", "n", "d",
              "i">>), ""),
          Alt(FALSE, Lit(<<"d", "e", "a", "d", "l", "i", "n", "e">>), ""),
          Alt(FALSE, Lit(<<"u", "r", "g", "e", "n", "t">>), ""),
          Alt(FALSE, Lit(<<"a", "s", "a", "p">>), ""),
          Alt(FALSE, Lit(<<"c", "e", "t", "t", "e", " ", "s", "e", "m", "a",
              "i", "n", "e">>), "")>>],
     [name |-> "constat", alts |-> <<
          Alt(FALSE, Lit(<<"o", "n", " ", "a", " ", "c", "o", "n", "s", "t",
              "a", "t">>) \o <<{"e", "U+00E9"}>>, ""),
          Alt(FALSE, Lit(<<"o", "n", " ", "a", " ", "v", "u">>), ""),
          Alt(FALSE, <<{"e", "U+00E9"}>> \o Lit(<<"t", "a", "t", " ", "d",
              "e", "s", " ", "l", "i", "e", "u", "x">>), ""),
          Alt(FALSE, Lit(<<"s", "i", "t", "u", "a", "t", "i", "o", "n">>),
              ""),
          Alt(FALSE, Lit(<<"a", "v", "a", "n", "c", "e", "m", "e", "n",
              "t">>), ""),
          Alt(FALSE, Lit(<<"a", "u", "j", "o", "u", "r", "d">>) \o <<{"'",
              "U+2019"}>> \o Lit(<<"h", "u", "i">>), ""),
          Alt(FALSE, Lit(<<"c", "e", " ", "m", "a", "t", "i", "n">>), ""),
          Alt(FALSE, Lit(<<"c", "e", " ", "s", "o", "i", "r">>), ""),
          Alt(FALSE, Lit(<<"s", "u", "r", " ", "p", "l", "a", "c", "e">>),
              "")>>]>>

(* The positions at which atoms j.. can end when matched from position i   *)
(* of the text (the position after the last character taken).              *)
RECURSIVE MatchEnds(_, _, _, _)
MatchEnds(text, i, atoms, j) ==
    IF j > Len(atoms) THEN {i}
    ELSE IF atoms[j] = DotPlus
    THEN UNION {MatchEnds(text, k, atoms, j + 1) :
                  k \in {e \in (i + 1)..(Len(text) + 1) :
                           \A n \in i..(e - 1) : text[n] # "\n"}}
    ELSE IF i > Len(text) THEN {}
    ELSE IF atoms[j] = Dot
    THEN IF text[i] # "\n" THEN MatchEnds(text, i + 1, atoms, j + 1) ELSE {}
    ELSE IF text[i] \in atoms[j] THEN MatchEnds(text, i + 1, atoms, j + 1)
    ELSE {}

(* \b and $ at position e of the text. *)
TailMatches(text, e, tail) ==
    LET word(n) == n \in DOMAIN text /\ WordChar(text[n])
    IN CASE tail = "b" -> word(e - 1) # word(e)
         [] tail = "$" ->
               e = Len(text) + 1 \/ (e = Len(text) /\ text[e] = "\n")
         [] OTHER -> TRUE

(* re.search of one alternative. *)
AltMatches(text, alt) ==
    \E i \in IF alt.start THEN {1} ELSE 1..(Len(text) + 1) :
        \E e \in MatchEnds(text, i, alt.atoms, 1) : TailMatches(text, e, alt.tail)

(* Some pattern of the group matches the text. *)
GroupMatches(text, group) ==
    \E n \in DOMAIN group.alts : AltMatches(text, group.alts[n])

(* The last group of the list that matches, 0 when none does. *)
RECURSIVE LastMatch(_, _, _)
LastMatch(text, groups, n) ==
    IF n > Len(groups) THEN 0
    ELSE LET later == LastMatch(text, groups, n + 1)
         IN IF later # 0 THEN later
            ELSE IF GroupMatches(text, groups[n]) THEN n
            ELSE 0

(* for name, patterns in groups.items(): for pattern in patterns:          *)
(*     if re.search(pattern, text): return name                            *)
RECURSIVE FirstMatch(_, _, _)
FirstMatch(text, groups, n) ==
    IF n > Len(groups) THEN 0
    ELSE IF GroupMatches(text, groups[n]) THEN n
    ELSE FirstMatch(text, groups, n + 1)

(* Mutant of DetectIntent: the last group that matches wins. *)
DetectIntentLast(text) ==
    LET n == LastMatch(Strip(Lower(text)), INTENT_PATTERNS, 1)
    IN IF n = 0 THEN "memo" ELSE INTENT_PATTERNS[n].name

(* detect_intent *)
DetectIntent(text) ==
    LET n == FirstMatch(Strip(Lower(text)), INTENT_PATTERNS, 1)
    IN IF n = 0 THEN "memo" ELSE INTENT_PATTERNS[n].name

(* Mutant of DetectBusinessTag: the last group that matches wins. *)
DetectBusinessTagLast(text) ==
    LET n == LastMatch(Lower(text), BUSINESS_TAGS, 1)
    IN IF n = 0 THEN "None" ELSE BUSINESS_TAGS[n].name

(* detect_business_tag *)
DetectBusinessTag(text) ==
    LET n == FirstMatch(Lower(text), BUSINESS_TAGS, 1)
    IN IF n = 0 THEN "None" ELSE BUSINESS_TAGS[n].name

(* Nothing has been classified. *)
NoClassif == [phase |-> "idle"]

(* A message is classified: detect_intent(text), detect_business_tag(text) *)
Classify(text) ==
    /\ classif.phase = "idle"
    /\ classif' = [phase |-> "done", text |-> text,
                   intent |-> DetectIntent(text),
                   tag |-> DetectBusinessTag(text)]
    /\ UNCHANGED <<tasks, now, clientVars, workerVars, enqLog, apiVars, pipe, histVars>>

(* --------------------------- specification ---------------------------- *)
(* The state after construction, for the given values of the environment: *)
(* GRAPHITI_READ_ENABLED, LLM_PROVIDER, the API keys.                      *)
InitState(readFlags, defaults, keySets) ==
    /\ readEnabled \in readFlags
    /\ calls = <<>>
    /\ lastReq = NoRequest
    /\ llm \in {NewLLM(d, k) : d \in defaults, k \in keySets}
    /\ tasks = <<>>
    /\ now = 0
    /\ enabled \in BOOLEAN
    /\ initialized = FALSE
    /\ available = FALSE
    /\ pc = [w \in Workers |-> "new"]
    /\ running = [w \in Workers |-> FALSE]
    /\ pool = [w \in Workers |-> "none"]
    /\ batch = [w \in Workers |-> <<>>]
    /\ cur = [w \in Workers |-> 0]
    /\ success = [w \in Workers |-> FALSE]
    /\ err = [w \in Workers |-> NoError]
    /\ rd = [w \in Workers |-> NoRead]
    /\ nfail = [w \in Workers |-> 0]
    /\ passed = [w \in Workers |-> FALSE]
    /\ enqLog = <<>>
    /\ episode = [w \in Workers |-> NoEpisode]
    /\ pipe = NoPipe
    /\ classif = NoClassif
    /\ marks = <<>>
    /\ libCalls = <<>>
    /\ appends = <<>>

(* GRAPHITI_READ_ENABLED and LLM_PROVIDER at their defaults, no API key. *)
Init == InitState({FALSE}, {"deepseek"}, {{}})

(* The steps of run() and _process_task() that make no history. *)
LoopStep(w) ==
    \/ Run(w)
    \/ StartupSleep(w)
    \/ StartupWake(w)
    \/ StartupExit(w)
    \/ LoopHead(w)
    \/ Fetch(w)
    \/ IdleWake(w)
    \/ BatchNext(w)
    \/ PauseWake(w)
    \/ MarkDone(w)
    \/ MarkFailedRead(w)
    \/ MarkFailedWrite(w)

(* The worker, the history of its tasks not kept. *)
WorkerStep(w) ==
    \/ LoopStep(w)
    \/ Stop(w)
    \/ MarkProcessing(w) /\ UNCHANGED histVars
    \/ \E o \in LibOutcomes : Handler(w, o) /\ UNCHANGED histVars

(* The worker, the history of its tasks kept. *)
WorkerStepCounted(w) ==
    \/ LoopStep(w)
    \/ Stop(w)
    \/ MarkProcessingCounted(w)
    \/ \E o \in LibOutcomes : HandlerCounted(w, o)

(* The callers of the client other than the worker: the application's      *)
(* start-up and its request handlers.                                      *)
ClientStep ==
    \/ \E o \in LibOutcomes : HealthCheck(o)
    \/ \E o \in LibOutcomes : Search(o)

(* Enqueue calls, (re)initialisation of the client, the clock.  initialize *)
(* alone takes the client's flag through all of its values.                *)
EnvStep(maxCalls, maxTime, dense) ==
    \/ \E r \in Requests : Enqueue(r[1], r[2], r[3], maxCalls)
    \/ \E ok \in BOOLEAN : Initialize(ok)
    \/ Tick(maxTime, dense)

(* One worker instance, one enqueue call, the whole retry chain. *)
Next ==
    \/ EnvStep(MaxEnqueue, MaxTime, FALSE)
    \/ ClientStep
    \/ WorkerStep("w1")

Spec == Init /\ [][Next]_vars

(* One worker instance, several rows, minute by minute. *)
NextQueue == EnvStep(MaxEnqueueQ, MaxTimeQ, TRUE) \/ WorkerStep("w1")

SpecQueue == Init /\ [][NextQueue]_vars

(* Two worker instances on the same table. *)
NextMulti ==
    EnvStep(MaxEnqueue, MaxTime, FALSE) \/ \E w \in Workers : WorkerStep(w)

SpecMulti == Init /\ [][NextMulti]_vars

(* One worker instance whose store statements can fail and whose task is   *)
(* cancelled at shutdown.                                                  *)
NextFaults ==
    \/ EnvStep(MaxEnqueue, MaxTime, FALSE)
    \/ WorkerStep("w1")
    \/ FaultStep("w1")

SpecFaults == Init /\ [][NextFaults]_vars

(* One worker instance with store errors and cancellation, the history of *)
(* each task kept: markings, library calls, stored appends.                *)
NextLife ==
    \/ EnvStep(MaxEnqueue, MaxTime, FALSE)
    \/ WorkerStepCounted("w1")
    \/ FaultStep("w1")

SpecLife == Init /\ [][NextLife]_vars

(* One worker instance over the whole retry chain, the markings of each    *)
(* task counted.                                                           *)
NextMarks ==
    \/ EnvStep(MaxEnqueue, MaxTime, FALSE)
    \/ LoopStep("w1")
    \/ Stop("w1")
    \/ MarkProcessingCounted("w1")
    \/ \E o \in LibOutcomes : Handler("w1", o) /\ UNCHANGED histVars

SpecMarks == Init /\ [][NextMarks]_vars

(* One worker instance that is never stopped, over a store whose          *)
(* statements can fail.  Every call returns: the coroutine always takes    *)
(* its next step, the clock reaches every retry instant, the client is     *)
(* initialised again and again, and the store errors come to an end.       *)
InitLive == Init /\ enabled

NextLive ==
    \/ \E r \in Requests : Enqueue(r[1], r[2], r[3], MaxEnqueue)
    \/ Initialize(TRUE)
    \/ Tick(MaxTime, FALSE)
    \/ LoopStep("w1")
    \/ MarkProcessing("w1") /\ UNCHANGED histVars
    \/ \E o \in LibOutcomes : Handler("w1", o) /\ UNCHANGED histVars
    \/ StoreFault("w1")

Fairness ==
    /\ WF_vars(Tick(MaxTime, FALSE))
    /\ WF_vars(Initialize(TRUE))
    /\ WF_vars(LoopStep("w1") \/ StoreFault("w1"))
    /\ WF_vars(MarkProcessing("w1") /\ UNCHANGED histVars)
    /\ WF_vars(\E o \in LibOutcomes : Handler("w1", o) /\ UNCHANGED histVars)
    /\ SF_vars(StartupExit("w1"))
    /\ <>[][~StoreRaises("w1")]_vars

SpecLive == InitLive /\ [][NextLive]_vars /\ Fairness

(* The GraphitiClient alone, every call recorded. *)
NextClient ==
    \/ \E o \in LibOutcomes : InitializeCall(o, MaxCalls)
    \/ \E o \in LibOutcomes : HealthCheckCall(o, MaxCalls)
    \/ \E op \in ClientOps, o \in LibOutcomes : ClientCall(op, o, MaxCalls)

SpecClient == Init /\ [][NextClient]_vars

(* The request handlers of main.py over the client and the queue. *)
InitRequest == InitState(BOOLEAN, {"deepseek"}, {{}})

NextRequest ==
    \/ \E ok \in BOOLEAN : Initialize(ok)
    \/ ClientStep
    \/ \E path \in RequestPaths, o \in LibOutcomes : Request(path, o, MaxRequests)

SpecRequest == InitRequest /\ [][NextRequest]_vars

(* One chat() of an LLMProvider, for every default and every set of keys. *)
InitLLM == InitState({FALSE}, DefaultNames, SUBSET KeyedProviders)

NextLLM ==
    \/ \E p \in ProviderArgs : Chat(p)
    \/ \E o \in HttpOutcomes : ExplicitCall(o)
    \/ \E o \in HttpOutcomes : FallbackCall(o)

SpecLLM == InitLLM /\ [][NextLLM]_vars

(* One worker instance over tasks of every kind. *)
DispatchRequests == {<<NoKey, "p1", t>> : t \in TaskTypes}

NextDispatch ==
    \/ \E r \in DispatchRequests : Enqueue(r[1], r[2], r[3], MaxEnqueueD)
    \/ \E ok \in BOOLEAN : Initialize(ok)
    \/ WorkerStep("w1")

SpecDispatch == Init /\ [][NextDispatch]_vars

(* The admin reindex route, run several times over the Zep history. *)
NextReindex ==
    \/ \E ok \in BOOLEAN : Initialize(ok)
    \/ \E messages \in Histories(MaxHistory) : Reindex(messages, MaxReindex)

SpecReindex == Init /\ [][NextReindex]_vars

(* One call of format_reasoning, for every text, tag, flag and LLM reply. *)
InitPipeline == Init /\ enabled

NextPipeline ==
    /\ pipe.phase = "idle"
    /\ \E words \in Texts, tag \in PipelineTags, forced \in BOOLEAN,
          reply \in LlmReplies : FormatReasoningCall(words, tag, forced, reply)

SpecPipeline == InitPipeline /\ [][NextPipeline]_vars

(* One message classified, for every message of the model. *)
NextClassifier ==
    /\ classif.phase = "idle"
    /\ \E text \in Messages : Classify(text)

SpecClassifier == InitPipeline /\ [][NextClassifier]_vars

(* ============================== claims ================================ *)

(* The rows that carry a given dedup key. *)
RowsOf(k) == {i \in Ids : tasks[i].message_uuid = k}

(* The calls of enqueue made so far with a given dedup key. *)
CallsOf(k) == {n \in DOMAIN enqLog : enqLog[n].key = k}

Handling(w, i) ==
    /\ cur[w] = i
    /\ pc[w] \in {"handler", "mark_done", "mark_failed", "mark_failed_write"}

(* C2: no task is handled by two worker instances at the same time. *)
C2_OneProcessorPerTask ==
    \A i \in Ids : \A v, w \in Workers : (Handling(v, i) /\ Handling(w, i)) => v = w

(* The delays of the retry chain, in minutes, by the new value of attempts. *)
BackoffMinutes == <<2, 4, 8, 16>>

(* The step in which worker w runs the UPDATE of _mark_failed. *)
MarkFailedStep(w) == pc[w] = "mark_failed_write" /\ pc'[w] # "mark_failed_write"

(* C3: _mark_failed on a task with attempts = a and a+1 < max_attempts     *)
(* sets attempts to a+1 and status to pending, records the error, and sets *)
(* next_retry_at to the failure time plus 2, 4, 8, 16 minutes for          *)
(* a+1 = 1, 2, 3, 4, each delay longer than the one before.                *)
C3_Backoff ==
    [][\A w \in Workers :
         LET i == cur[w]
             a == tasks[i].attempts
         IN (MarkFailedStep(w) /\ a + 1 < tasks[i].max_attempts) =>
               /\ tasks'[i].attempts = a + 1
               /\ tasks'[i].status = "pending"
               /\ tasks'[i].error_message = err[w]
               /\ err[w] # NoError
               /\ tasks'[i].next_retry_at = now + BackoffMinutes[a + 1]
               /\ a >= 1 => tasks'[i].next_retry_at - now > BackoffMinutes[a]]_vars

(* C3 witness: a task has failed four times and waits for its last retry. *)
C3_Witness ==
    \E i \in Ids :
        /\ tasks[i].status = "pending"
        /\ tasks[i].attempts = 4
        /\ tasks[i].next_retry_at = now + 16

(* C4: _mark_failed on a task whose attempts+1 reaches max_attempts sets   *)
(* status to failed and attempts to attempts+1, records the error and      *)
(* leaves next_retry_at alone; no fetch returns a failed task.             *)
C4_TerminalFailure ==
    [][/\ \A w \in Workers :
            LET i == cur[w]
                a == tasks[i].attempts
            IN (MarkFailedStep(w) /\ a + 1 >= tasks[i].max_attempts) =>
                  /\ tasks'[i].attempts = a + 1
                  /\ tasks'[i].status = "failed"
                  /\ tasks'[i].error_message = err[w]
                  /\ err[w] # NoError
                  /\ tasks'[i].next_retry_at = tasks[i].next_retry_at
       /\ \A w \in Workers :
            (pc[w] = "fetch" /\ pc'[w] # "fetch") =>
                \A n \in DOMAIN batch'[w] : tasks[batch'[w][n]].status # "failed"
       /\ \A i \in Ids : \A t \in 0..(MaxTime + 32) :
            tasks[i].status = "failed" => i \notin Due(tasks, t)]_vars

(* C4 witness: a task has failed for good and the worker has fetched       *)
(* again since, finding nothing.                                           *)
C4_Witness ==
    /\ \E i \in Ids : tasks[i].status = "failed" /\ tasks[i].attempts = 5
    /\ pc["w1"] = "idle_sleep"

(* C5: once a task is done or failed, its status and attempts never change. *)
C5_TerminalIsFinal ==
    [][\A i \in Ids :
         tasks[i].status \in {"done", "failed"} =>
             /\ tasks'[i].status = tasks[i].status
             /\ tasks'[i].attempts = tasks[i].attempts]_vars

(* The status changes of the task life cycle. *)
AllowedTransitions ==
    {<<"pending", "processing">>, <<"processing", "done">>,
     <<"processing", "pending">>, <<"processing", "failed">>}

(* C6: with one worker instance, every status change of every task is one  *)
(* of pending->processing, processing->done, processing->pending and       *)
(* processing->failed.                                                     *)
C6_Transitions ==
    [][\A i \in Ids :
         tasks'[i].status # tasks[i].status =>
             <<tasks[i].status, tasks'[i].status>> \in AllowedTransitions]_vars

(* C6 witness: a task went through pending->processing->pending several    *)
(* times and then processing->failed.                                      *)
C6_Witness ==
    \E i \in Ids : tasks[i].status = "failed" /\ tasks[i].attempts = tasks[i].max_attempts

(* C7: attempts <= max_attempts for every task, in every reachable state. *)
C7_AttemptsBounded ==
    \A i \in Ids : tasks[i].attempts <= tasks[i].max_attempts

(* What the claim asks of one answer s of fetchBatch(limit) at time t. *)
GoodBatch(s, tbl, t, limit) ==
    /\ Len(s) <= limit
    /\ \A a \in DOMAIN s :
          /\ s[a] \in DOMAIN tbl
          /\ tbl[s[a]].status = "pending"
          /\ tbl[s[a]].next_retry_at <= t
    /\ \A a, b \in DOMAIN s : a < b =>
          /\ s[a] # s[b]
          /\ tbl[s[a]].created_at <= tbl[s[b]].created_at
    /\ \A j \in DOMAIN tbl :
          (/\ tbl[j].status = "pending"
           /\ tbl[j].next_retry_at <= t
           /\ \A a \in DOMAIN s : s[a] # j) =>
              /\ Len(s) = limit
              /\ \A a \in DOMAIN s : tbl[s[a]].created_at <= tbl[j].created_at

(* C8: fetchBatch(limit) returns at most limit tasks, each pending and     *)
(* due, the oldest-created ones in ascending created_at order, never a     *)
(* task that is processing, done, failed or in backoff; and it changes no  *)
(* task.                                                                   *)
C8_FetchBatch ==
    /\ [](\A limit \in 1..BATCH_SIZE :
            \A s \in FetchPending(tasks, now, limit) : GoodBatch(s, tasks, now, limit))
    /\ [][\A w \in Workers :
            (pc[w] = "fetch" /\ pc'[w] # "fetch") =>
                /\ tasks' = tasks
                /\ GoodBatch(batch'[w], tasks, now, BATCH_SIZE)]_vars

(* C8 witness: a fetch has returned two tasks created at different times,  *)
(* the older one on its retry, while a smaller limit would have cut the    *)
(* batch.                                                                  *)
C8_Witness ==
    /\ pc["w1"] = "batch"
    /\ Len(batch["w1"]) = 2
    /\ tasks[batch["w1"][1]].created_at < tasks[batch["w1"][2]].created_at
    /\ tasks[batch["w1"][1]].attempts = 1
    /\ Cardinality(Due(tasks, now)) > 1

(* The step in which _process_task of worker w returns. *)
ProcessReturns(w) ==
    pc[w] \in {"mark_done", "mark_failed_write"} /\ pc'[w] = "batch"

C10_StartupGate ==
    ~passed["w1"] =>
        /\ pc["w1"] \in {"new", "startup", "startup_sleep", "loop", "stopped"}
        /\ pool["w1"] = "none"
        /\ batch["w1"] = <<>>
        /\ \A i \in Ids :
              /\ tasks[i].status = "pending"
              /\ tasks[i].attempts = 0
              /\ tasks[i].next_retry_at = tasks[i].created_at

(* C10 witness: stop() ended the wait while a task was pending and due. *)
C10_Witness ==
    /\ ~passed["w1"]
    /\ pc["w1"] = "stopped"
    /\ Due(tasks, now) # {}

(* C11: whenever run() has ended, by stop() or by the cancellation of its  *)
(* task at a suspension point, the pool, if one was created, is closed.    *)
C11_PoolClosedAtEnd ==
    \A w \in Workers : pc[w] \in {"stopped", "cancelled"} => pool[w] # "open"

(* C12: a call of a live knowledge-store operation that starts available   *)
(* and meets one connection-class error leaves the client unavailable.     *)
C12_SingleFailureTrip ==
    \A n \in DOMAIN calls :
        (/\ calls[n].op \in ClientOps
         /\ calls[n].before
         /\ IsConnectionError(calls[n].outcome)) => ~calls[n].after

C14_DisabledNeverAvailable ==
    ~enabled =>
        /\ ~Available
        /\ ~available
        /\ \A n \in DOMAIN calls :
              /\ ~calls[n].after
              /\ calls[n].outcome = NoContact
              /\ calls[n].op = "initialize" => calls[n].ret = "False"
              /\ calls[n].op = "health_check" => calls[n].ret = "disabled"

(* C14 witness: the switch is off and initialize, health_check,            *)
(* add_episode and search have all been called.                            *)
C14_Witness ==
    /\ ~enabled
    /\ \A op \in {"initialize", "health_check", "add_episode", "search"} :
          \E n \in DOMAIN calls : calls[n].op = op

(* C15: a request served while the knowledge store is unavailable skips    *)
(* the knowledge-store step and does not end in an error.                  *)
C15_SkipWithoutError ==
    (lastReq.path \in RequestPaths /\ ~lastReq.avail) =>
        (lastReq.step = "skipped" /\ lastReq.status # "http_503")

(* The chat() in progress was called without a provider. *)
Routed == llm.explicit = NoProvider /\ llm.phase # "idle"

(* The providers called so far, in the order of the calls. *)
CalledNames == [i \in DOMAIN llm.called |-> llm.called[i].provider]

(* The first n members of a sequence. *)
Prefix(seq, n) == SubSeq(seq, 1, n)

(* C16: a chat() given a provider and over has called that provider once   *)
(* and no other, and what it raised is that call's own error; nothing was  *)
(* logged as a failure or a fallback.                                      *)
C16_ExplicitProvider ==
    (llm.explicit # NoProvider /\ llm.phase # "idle") =>
        /\ llm.phase \in {"explicit", "returned", "raised"}
        /\ llm.phase = "explicit" => llm.called = <<>>
        /\ llm.phase \in {"returned", "raised"} =>
              /\ Len(llm.called) = 1
              /\ llm.called[1].provider = llm.explicit
              /\ llm.result = Outcome(llm.called[1].kind, llm.explicit)
              /\ (llm.phase = "raised") <=> (llm.called[1].kind # "ok")
        /\ llm.failLogs = 0 /\ llm.fallbackLogs = 0

(* C16 witness: the provider asked for failed on the HTTP exchange and the *)
(* caller got that error.                                                  *)
C16_Witness ==
    /\ llm.explicit = "qwen"
    /\ llm.phase = "raised"
    /\ llm.result.kind = "http_error"

(* C17: a chat() without provider has raised if and only if every member   *)
(* of its chain was called and failed; what it raised is the exhaustion    *)
(* error, which carries the error of the last member.                      *)
C17_Exhaustion ==
    Routed =>
        LET chain == Chain(llm.current_provider)
            n     == Len(llm.called)
        IN /\ (llm.phase = "raised") <=>
                  (/\ CalledNames = chain
                   /\ \A i \in DOMAIN llm.called : llm.called[i].kind # "ok")
           /\ llm.phase = "raised" =>
                  /\ llm.result.kind = "exhausted"
                  /\ llm.result.lastProvider = chain[Len(chain)]
                  /\ llm.result.lastKind = llm.called[n].kind

(* C17 witness: the three members failed in three ways, the last on its    *)
(* response.                                                               *)
C17_Witness ==
    /\ Routed
    /\ llm.phase = "raised"
    /\ llm.called[1].kind = "Cle API manquante"
    /\ llm.called[2].kind = "transport_error"
    /\ llm.called[3].kind = "malformed"

(* C18: the first provider a chat() without provider calls is the          *)
(* configured default, for every default that LLM_CONFIGS knows; the       *)
(* others follow in the order of FALLBACK_CHAIN, none called twice.        *)
C18_DefaultFirst ==
    (Routed /\ llm.current_provider \in ConfigNames /\ llm.called # <<>>) =>
        /\ CalledNames[1] = llm.current_provider
        /\ SubSeq(CalledNames, 2, Len(CalledNames)) =
              Prefix(SelectSeq(FALLBACK_CHAIN,
                               LAMBDA q : q # llm.current_provider),
                     Len(CalledNames) - 1)
        /\ \A i, j \in DOMAIN CalledNames :
              CalledNames[i] = CalledNames[j] => i = j

(* C19: the providers called are the members of the chain, in order; each  *)
(* one called before the last has failed, and after a failure, of whatever *)
(* kind, the next member is still to be tried; the call returned exactly   *)
(* when the last one called succeeded, with that member's content, and the *)
(* members after it were not called.                                       *)
C19_FirstSuccess ==
    Routed =>
        LET chain == Chain(llm.current_provider)
            n     == Len(llm.called)
        IN /\ n <= Len(chain)
           /\ CalledNames = Prefix(chain, n)
           /\ llm.chain = SubSeq(chain, n + 1, Len(chain))
           /\ \A i \in 1..(n - 1) : llm.called[i].kind # "ok"
           /\ (llm.phase = "returned") <=> (n > 0 /\ llm.called[n].kind = "ok")
           /\ llm.phase = "returned" =>
                  llm.result = Outcome("ok", chain[n])
           /\ (n > 0 /\ n < Len(chain) /\ llm.called[n].kind # "ok")
                  => llm.phase = "fallback"
           /\ llm.phase = "fallback" => n < Len(chain)

(* C19 witness: the first member lacked its API key, the second answered   *)
(* with a malformed body, the third succeeded.                             *)
C19_Witness ==
    /\ Routed
    /\ llm.phase = "returned"
    /\ Len(llm.called) = 3
    /\ llm.called[1].kind = "Cle API manquante"
    /\ llm.called[2].kind = "malformed"
    /\ llm.result.kind = "content"

C30_DispatchByKind ==
    \A w \in Workers :
        episode[w] # NoEpisode =>
            LET t     == tasks[cur[w]]
                plain == AddEpisode(t.content, RowSource, episode[w].stored)
            IN /\ t.task_type = "add_episode" => episode[w] = plain
               /\ t.task_type = "correct" => episode[w] # plain
               /\ t.task_type = "forget" =>
                     episode[w].content = Negation(t.content)

(* format_reasoning has been called and has returned its triple. *)
Returned == pipe.phase = "done" /\ pipe.out.status = "returned"

(* The same call with the forced flag turned over. *)
OtherFlag == FormatReasoning(pipe.words, pipe.tag, ~pipe.forced, pipe.reply)

(* C21: for the same text, tag and LLM reply, the confidence returned      *)
(* with forced = true is never lower than the one returned with forced =   *)
(* false.                                                                  *)
C21_ForcedNeverLower ==
    (Returned /\ OtherFlag.status = "returned") =>
        IF pipe.forced THEN pipe.out.score >= OtherFlag.score
        ELSE OtherFlag.score >= pipe.out.score

(* C22: whatever llm_provider.chat does (it raises, returns text that is   *)
(* not JSON, JSON that is not an object, an object with fields of the      *)
(* wrong type), format_reasoning raises nothing and returns its triple.    *)
C22_NeverRaises == pipe.phase = "done" => pipe.out.status = "returned"

(* The weight of a field of the repaired record, as the claim states it:   *)
(* counted when the field is populated.                                    *)
Weight(key, hundredths) ==
    IF Truthy(Get(pipe.out.stages.data, key)) THEN hundredths ELSE 0

(* The sum of the weights of the populated fields, by tag. *)
StatedSum ==
    CASE pipe.tag = "decision" ->
            Weight("choix", 50) + Weight("justification", 30) + Weight("contexte", 20)
      [] pipe.tag = "doute" -> Weight("question", 70) + Weight("contexte", 30)
      [] pipe.tag = "lecon" ->
            Weight("erreur", 40) + Weight("correction", 40)
            + Weight("regle_extraite", 20)
      [] OTHER -> 0

C24_RepairBelowThreshold ==
    pipe.phase = "done" =>
        /\ pipe.out.stages.chats <= 1
        /\ pipe.out.stages.chats = 1 => pipe.out.stages.first < 80

(* C24 witness: the split left the confidence at 0.70, the highest score   *)
(* below the threshold, and the call was made.                             *)
C24_Witness ==
    /\ pipe.phase = "done"
    /\ pipe.out.stages.first = 70
    /\ pipe.out.stages.chats = 1

(* The LLM repair has run on a JSON object. *)
Repaired ==
    /\ pipe.phase = "done"
    /\ pipe.out.stages.chats = 1
    /\ pipe.reply.kind = "object"

(* C25: the repair copies a returned field into the record only when the   *)
(* returned value is non-empty and the record's field is empty; every      *)
(* other field of the record, the populated ones first, is as the split    *)
(* left it.                                                                *)
C25_RepairFillsEmptyOnly ==
    Repaired =>
        LET before == pipe.out.stages.heuristic
            after  == pipe.out.stages.data
            obj    == pipe.reply.obj
        IN \A k \in DOMAIN before \cup DOMAIN obj \cup DOMAIN after :
              IF /\ k \in DOMAIN obj
                 /\ Truthy(obj[k])
                 /\ ~Truthy(Get(before, k))
              THEN k \in DOMAIN after /\ after[k] = obj[k]
              ELSE /\ k \in DOMAIN after <=> k \in DOMAIN before
                   /\ k \in DOMAIN before => after[k] = before[k]

(* C25 witness: the reply offers a value for a field the split populated   *)
(* with another value and for a field the split left empty.                *)
C25_Witness ==
    /\ Repaired
    /\ pipe.tag = "decision"
    /\ {"choix", "justification"} \subseteq DOMAIN pipe.reply.obj
    /\ Truthy(pipe.reply.obj["choix"])
    /\ Truthy(pipe.out.stages.heuristic["choix"])
    /\ pipe.reply.obj["choix"] # pipe.out.stages.heuristic["choix"]
    /\ ~Truthy(pipe.out.stages.heuristic["justification"])
    /\ pipe.out.stages.data["justification"] = pipe.reply.obj["justification"]

(* C26: a record that fails validation (a decision of source type          *)
(* expertise without source reference among them) does not abort the call: *)
(* the unvalidated record is returned with a confidence of at most 0.50;   *)
(* when validation passes, the confidence is the score, unclamped.         *)
C26_ValidationFailureClamps ==
    pipe.phase = "done" =>
        /\ pipe.out.stages.validation = "failed" =>
              /\ pipe.out.status = "returned"
              /\ pipe.out.record = pipe.out.stages.data
              /\ pipe.out.score = Min2(pipe.out.stages.scored, 50)
        /\ pipe.out.stages.validation = "passed" =>
              /\ pipe.out.status = "returned"
              /\ pipe.out.score = pipe.out.stages.scored

(* The fields of the templates that carry the content of the record. *)
ContentFields ==
    [decision |-> {"choix", "contexte", "justification", "alternatives"},
     doute    |-> {"question", "contexte"},
     lecon    |-> {"erreur", "correction", "regle_extraite"}]

(* A field of the returned record is empty: absent, None, "" or []. *)
EmptyField(k) == ~Truthy(Get(pipe.out.record, k))

(* C27: for the tags decision, doute and lecon the rendered text is the    *)
(* tag's template, every empty field replaced by the placeholder, also     *)
(* when validation failed.                                                 *)
C27_TemplateAlways ==
    (Returned /\ pipe.tag \in DOMAIN ContentFields) =>
        /\ pipe.out.text.form = "template"
        /\ \A k \in ContentFields[pipe.tag] :
              EmptyField(k) <=> pipe.out.text.values[k] = Placeholder

(* A message has been classified. *)
Classified == classif.phase = "done"

(* The named group of a pattern table matches the text. *)
Hits(groups, name, text) ==
    \E n \in DOMAIN groups :
        groups[n].name = name /\ GroupMatches(text, groups[n])

(* The result is the first name of the order whose group matches the text, *)
(* and the default when no group matches.                                  *)
FirstOf(order, groups, text, result, default) ==
    /\ \A i \in DOMAIN order :
          result = order[i] <=>
              /\ Hits(groups, order[i], text)
              /\ \A j \in 1..(i - 1) : ~Hits(groups, order[j], text)
    /\ result = default <=> \A i \in DOMAIN order : ~Hits(groups, order[i], text)

(* C28: detect_intent returns the highest-priority intent whose group      *)
(* matches the lower-cased, stripped text, in the order question,          *)
(* correction, forget, and memo when none matches; it returns one of the   *)
(* four for every text, the empty one included.                            *)
C28_IntentPriority ==
    Classified =>
        /\ classif.intent \in {"question", "correction", "forget", "memo"}
        /\ FirstOf(<<"question", "correction", "forget">>, INTENT_PATTERNS,
                   Strip(Lower(classif.text)), classif.intent, "memo")

(* C28 witness: the text matches the groups of correction and forget but  *)
(* not the group of question.                                              *)
C28_Witness ==
    /\ Classified
    /\ \A name \in {"correction", "forget"} :
          Hits(INTENT_PATTERNS, name, Strip(Lower(classif.text)))
    /\ ~Hits(INTENT_PATTERNS, "question", Strip(Lower(classif.text)))
    /\ classif.intent = "correction"

(* "il faut toujours vérifier avant de valider" *)
Sample ==
    <<"i", "l", " ", "f", "a", "u", "t", " ", "t", "o", "u", "j", "o", "u", "r", "s", " ", "v", "U+00E9",
      "r", "i", "f", "i", "e", "r", " ",
      "a", "v", "a", "n", "t", " ", "d", "e", " ", "v", "a", "l", "i", "d", "e", "r">>

(* C29: detect_business_tag returns the first tag, in the order decision,  *)
(* lecon, doute, probleme, option, rappel, constat, whose group matches    *)
(* the lower-cased text, and None when none matches; the sample sentence,  *)
(* which matches a lecon pattern and a rappel pattern, is tagged lecon.    *)
C29_TagPriority ==
    Classified =>
        /\ FirstOf(<<"decision", "lecon", "doute", "probleme", "option",
                     "rappel", "constat">>, BUSINESS_TAGS,
                   Lower(classif.text), classif.tag, "None")
        /\ classif.text = Sample =>
              /\ Hits(BUSINESS_TAGS, "lecon", Sample)
              /\ Hits(BUSINESS_TAGS, "rappel", Sample)
              /\ classif.tag = "lecon"

(* C29 witness: the sample sentence has been classified. *)
C29_Witness == Classified /\ classif.text = Sample

(* The step in which a run of the admin reindex is served. *)
ReindexStep ==
    lastReq'.path = "api_admin_reindex" /\ lastReq'.run = RunsSoFar + 1

(* C31: a run of the admin reindex that follows a completed run over the   *)
(* same history messages adds no task: the table is the same after it.     *)
C31_ReindexIdempotent ==
    [][(/\ ReindexStep
        /\ lastReq.path = "api_admin_reindex"
        /\ lastReq.status = "ok"
        /\ lastReq'.status = "ok"
        /\ lastReq'.messages = lastReq.messages) => tasks' = tasks]_vars

(* stop() has been called on the worker, or its run() has ended. *)
Stopped(w) == pc[w] # "new" /\ ~running[w]

(* The rows of the fetched batch the worker has not taken in hand yet. *)
Remaining(w) == {batch[w][n] : n \in DOMAIN batch[w]}

(* C32: the worker enters _process_task only while running; once stop()    *)
(* has been called the only task that can still be marked processing is    *)
(* the one already in _process_task, only that task changes, and the rows  *)
(* left in the fetched batch stay pending with attempts and next_retry_at  *)
(* as they were.                                                           *)
C32_StopHalts ==
    [][/\ (pc'["w1"] = "mark_processing" /\ pc["w1"] # "mark_processing")
            => running["w1"]
       /\ Stopped("w1") =>
            \A i \in Ids :
               /\ (tasks'[i].status = "processing" /\ tasks[i].status # "processing")
                     => (pc["w1"] = "mark_processing" /\ cur["w1"] = i)
               /\ i # cur["w1"] =>
                     /\ tasks'[i].status = tasks[i].status
                     /\ tasks'[i].attempts = tasks[i].attempts
                     /\ tasks'[i].next_retry_at = tasks[i].next_retry_at
               /\ i \in Remaining("w1") =>
                     /\ tasks[i].status = "pending"
                     /\ tasks'[i].status = "pending"]_vars

(* C32 witness: stop() was called while the first task of a batch of two   *)
(* was in the handler; that task has been marked done, the other one is    *)
(* still pending and untried, and the worker is leaving the batch.         *)
C32_Witness ==
    /\ Stopped("w1")
    /\ pc["w1"] = "batch"
    /\ Remaining("w1") # {}
    /\ \E i \in Ids : tasks[i].status = "done"
    /\ \A i \in Remaining("w1") : tasks[i].status = "pending" /\ tasks[i].attempts = 0

(* C34: with one worker instance, a task has status processing only while  *)
(* the worker is inside _process_task for that task; when the worker is    *)
(* idle, sleeping, stopped or cancelled, no task is left in processing.    *)
C34_ProcessingOnlyInHand ==
    \A i \in Ids : tasks[i].status = "processing" => Handling("w1", i)

(* The terminal statuses of a task. *)
Terminal == {"done", "failed"}

(* C33: with one worker that is never stopped, the clock advancing and     *)
(* every handler call and store call returning, every enqueued task        *)
(* eventually has status done or failed.                                   *)
C33_EveryTaskEnds ==
    \A i \in 1..MaxEnqueue :
        (i \in Ids) ~> (i \in Ids /\ tasks[i].status \in Terminal)

(* C35: the attempts of a task of a known kind never exceed the number of  *)
(* appends the library was asked for on its behalf: no attempt is consumed *)
(* while the client is unavailable.                                        *)
C35_AttemptsOnlyAfterAppend ==
    \A i \in Ids :
        tasks[i].task_type \in KnownTypes =>
            tasks[i].attempts <= Count(libCalls, i)

(* C36: with one worker instance, the payload of a task is stored by the   *)
(* library at most once, and a task whose handler call has succeeded is    *)
(* not taken in hand again, whatever happens to the _mark_done update.     *)
C36_AppendedAtMostOnce ==
    \A i \in Ids :
        /\ Count(appends, i) <= 1
        /\ (Count(appends, i) = 1 /\ ~Handling("w1", i)) =>
              tasks[i].status # "pending"

(* C37: with one worker instance, a task is marked processing at most      *)
(* max_attempts times over its whole life (5 by default), and the handler  *)
(* runs only for the task that has just been marked.                       *)
C37_MarkedAtMostMaxAttempts ==
    /\ \A i \in Ids :
          /\ Count(marks, i) <= tasks[i].max_attempts
          /\ tasks[i].max_attempts = DefaultMaxAttempts
    /\ pc["w1"] = "handler" =>
          /\ tasks[cur["w1"]].status = "processing"
          /\ Count(marks, cur["w1"]) >= 1

(* C37 witness: a task has been marked processing max_attempts times and   *)
(* has failed for good.                                                    *)
C37_Witness ==
    \E i \in Ids :
        /\ Count(marks, i) = tasks[i].max_attempts
        /\ tasks[i].status = "failed"

(* initialize() had returned True before the n-th call of the client. *)
InitializedBefore(n) ==
    \E m \in 1..(n - 1) : calls[m].op = "initialize" /\ calls[m].ret = "True"

(* C38: as long as initialize has never succeeded, health_check reaches    *)
(* nothing, reports not_initialized (or disabled) and leaves the client    *)
(* unavailable, and only a call of initialize makes the client available;  *)
(* once initialize has succeeded, a health_check that finds the client     *)
(* unavailable runs initialize again and takes its result.                 *)
C38_HealthCheckNeedsInit ==
    /\ ~initialized => ~available
    /\ \A n \in DOMAIN calls :
          LET c == calls[n]
          IN /\ (c.op = "health_check" /\ ~InitializedBefore(n)) =>
                   /\ c.outcome = NoContact
                   /\ ~c.before /\ ~c.after
                   /\ c.ret \in {"not_initialized", "disabled"}
             /\ (~InitializedBefore(n) /\ c.after) => c.op = "initialize"
             /\ (c.op = "health_check" /\ InitializedBefore(n) /\ ~c.before) =>
                   /\ c.outcome # NoContact
                   /\ c.after = (c.outcome = "ok")
                   /\ c.ret = IF c.outcome = "ok" THEN "reconnected"
                                                  ELSE "unavailable"

(* C38 witness: a health_check found the client never initialised and left *)
(* it down, initialize then succeeded, an append tripped the client, and a *)
(* second health_check reconnected it.                                     *)
C38_Witness ==
    /\ Len(calls) = 4
    /\ calls[1].op = "health_check" /\ calls[1].ret = "not_initialized"
    /\ calls[2].op = "initialize" /\ calls[2].after
    /\ calls[3].op = "add_episode" /\ ~calls[3].after
    /\ calls[4].op = "health_check" /\ calls[4].ret = "reconnected"

(* C39: a call of add_episode (or correct_fact, which is add_episode) or   *)
(* of search whose library call raises an error that _is_connection_error  *)
(* does not recognise leaves the availability as it found it and returns   *)
(* the failure value (False, an empty list).                               *)
C39_OtherErrorFrame ==
    \A n \in DOMAIN calls :
        LET c == calls[n]
        IN (/\ c.op \in {"add_episode", "correct_fact", "search"}
            /\ c.outcome # NoContact
            /\ c.outcome # "ok"
            /\ ~IsConnectionError(c.outcome)) =>
               /\ c.after = c.before
               /\ c.ret = "empty"
               /\ n < Len(calls) => calls[n + 1].before = c.before

(* C39 witness: a search met such an error while the client was available, *)
(* and the append that followed still reached the library.                 *)
C39_Witness ==
    \E n \in DOMAIN calls :
        /\ n + 1 \in DOMAIN calls
        /\ calls[n].op = "search"
        /\ calls[n].outcome = "other_error"
        /\ calls[n].before /\ calls[n].after /\ calls[n].ret = "empty"
        /\ calls[n + 1].op = "add_episode" /\ calls[n + 1].ret = "result"

(* The kinds the claims name: add-fact, correct-fact, retract-fact. *)
NamedKinds == {"add_episode", "correct", "forget"}

(* Task i is of none of the named kinds. *)
OtherKind(i) == tasks[i].task_type \notin NamedKinds

====
